---- MODULE Spec2Model ----
(***************************************************************************)
(* State-machine model of the DRM/KMS backend in src/backend/drm/DRM.cpp:  *)
(* connector scans, connect/disconnect, Output commit/test, the page-flip  *)
(* handler, event dispatch with idle callbacks, and the VT restore.        *)
(*                                                                         *)
(* Every handler is one atomic action (the backend is single threaded).    *)
(* A handler is written as an operator from a state record to the SET of   *)
(* state records it can end in; the nondeterminism is what the kernel and  *)
(* the commit engine answer.  A dereference of a null or dangling pointer  *)
(* is undefined behaviour: the model takes both outcomes, the process dies *)
(* (crashed) or the read yields garbage and execution continues.           *)
(***************************************************************************)
EXTENDS Integers, Sequences, FiniteSets, TLC

----------------------------------------------------------------------------
(* Bounds of the model. *)

\* buffers the consumer renders into (buffer 0 is "no buffer")
MaxBuffers == 1
\* page-flips the kernel accepts per CRTC before it answers EBUSY
MaxFlips == 2
\* idle callbacks that may be queued between two dispatches
MaxIdle == 1
\* framebuffer objects made in a run of the framebuffer class on its own
MaxFBs == 2
\* planes the kernel lists in a run of the resource enumeration on its own
MaxPlanes == 2
\* the largest clock, htotal and vtotal of the small modes the mode
\* arithmetic is run on, next to the modes of real monitors
MaxTiming == 2

----------------------------------------------------------------------------
(* The kernel's resources: what drmModeGetResources / GetPlaneResources    *)
(* report.  Fixed for a run, as on real hardware.                          *)

\* the connector ids a kernel may list in resources->connectors
ConnIds == {1, 2}

\* resources->crtcs, in kernel order (index i is bit i-1 of possible_crtcs)
KernelCrtcIds == <<1, 2>>

\* planes in kernel order; possible_crtcs as the set of CRTC indexes
\* formats: plane->formats; in_formats: the id of the plane's IN_FORMATS
\* property (0: it has none); blob: that property's (format, modifier) pairs
\* in iteration order
KernelPlanes ==
    << [id |-> 1, type |-> "PRIMARY", possible_crtcs |-> {1, 2},
        formats |-> <<"XR24">>, in_formats |-> 0, blob |-> <<>>],
       [id |-> 2, type |-> "CURSOR",  possible_crtcs |-> {1},
        formats |-> <<"XR24">>, in_formats |-> 0, blob |-> <<>>],
       [id |-> 3, type |-> "PRIMARY", possible_crtcs |-> {1},
        formats |-> <<"XR24">>, in_formats |-> 0, blob |-> <<>>] >>

\* connector property ids (0: the connector has no such property)
ConnectorProps(c) == [vrr_capable |-> IF c = 2 THEN 1 ELSE 0]

\* CRTC property ids
CrtcProps(k) == [vrr_enabled |-> 1]

Range(f) == {f[i] : i \in DOMAIN f}
CrtcIds == Range(KernelCrtcIds)
PlaneIds == {KernelPlanes[i].id : i \in DOMAIN KernelPlanes}
Buffers == 1..MaxBuffers

----------------------------------------------------------------------------
(* Values *)

\* a framebuffer reference held in a plane slot; NoFB is the null pointer
NoFB == [id |-> 0, buffer |-> 0]

\* one entry of the last handler's log of kernel calls, engine calls and
\* emitted events
E(what, c) ==
    [what |-> what, conn |-> c, buf |-> 0, fb |-> 0, ok |-> TRUE, blocking |-> FALSE,
     modeset |-> FALSE, test |-> FALSE, stale |-> FALSE, presented |-> FALSE,
     connection |-> "", ptr |-> "", refresh |-> 0]

Log(s, e) == [s EXCEPT !.trace = Append(@, e)]

\* a dereference of the null or dangling pointer ptr: the process dies, or it
\* reads garbage and carries on
Deref(s, c, ptr) ==
    LET s1 == Log(s, [E("ub", c) EXCEPT !.ptr = ptr])
    IN  { [s1 EXCEPT !.crashed = TRUE], s1 }

\* a kernel mode: id stands for the bytes of the drmModeModeInfo
KMode(id, interlace) == [id |-> id, interlace |-> interlace]

\* a drmModeModeInfo
ModeInfo(clock, hdisplay, htotal, vdisplay, vtotal, vscan, flags) ==
    [clock |-> clock, hdisplay |-> hdisplay, hsync_start |-> hdisplay,
     hsync_end |-> htotal, htotal |-> htotal, vdisplay |-> vdisplay,
     vsync_start |-> vdisplay, vsync_end |-> vtotal, vtotal |-> vtotal,
     vscan |-> vscan, vrefresh |-> 0, flags |-> flags, name |-> <<hdisplay, vdisplay>>]

\* no mode
NoModeInfo == ModeInfo(0, 0, 0, 0, 0, 0, {})

\* no kernel mode
NoKMode == KMode(0, FALSE)

\* SDRMConnector as constructed (not yet in the connectors vector); announced
\* counts the newOutput events emitted for the output it has; modes is
\* output->modes, modeInfo the kernel mode of output->state->state().mode,
\* refresh is connector->refresh, driving the mode the kernel drives the
\* connector's CRTC with as far as connect and the commits tell
NewConnector ==
    [created |-> FALSE, status |-> "DISCONNECTED", output |-> FALSE, crtc |-> 0,
     isPageFlipPending |-> FALSE, canDoVrr |-> FALSE,
     mode |-> "none", customMode |-> "none", announced |-> 0,
     modes |-> <<>>, modeInfo |-> NoKMode, refresh |-> 0, driving |-> NoModeInfo]

----------------------------------------------------------------------------
(* Resource enumeration: first-fit assignment of planes to CRTC slots. *)

RECURSIVE FirstFitNoBreak(_, _, _)
\* mutant: the loop goes on after it has placed the plane
FirstFitNoBreak(crtcs, plane, i) ==
    IF i > Len(KernelCrtcIds) THEN crtcs
    ELSE IF i \notin plane.possible_crtcs THEN FirstFitNoBreak(crtcs, plane, i + 1)
    ELSE LET k == KernelCrtcIds[i] IN
         IF plane.type = "PRIMARY" /\ crtcs[k].primary = 0
         THEN FirstFitNoBreak([crtcs EXCEPT ![k].primary = plane.id], plane, i + 1)
         ELSE IF plane.type = "CURSOR" /\ crtcs[k].cursor = 0
         THEN FirstFitNoBreak([crtcs EXCEPT ![k].cursor = plane.id], plane, i + 1)
         ELSE FirstFitNoBreak(crtcs, plane, i + 1)

RECURSIVE FirstFit(_, _, _)
\* the loop over backend->crtcs in SDRMPlane::init for one plane, from index i
FirstFit(crtcs, plane, i) ==
    IF i > Len(KernelCrtcIds) THEN crtcs
    ELSE IF i \notin plane.possible_crtcs THEN FirstFit(crtcs, plane, i + 1)
    ELSE LET k == KernelCrtcIds[i] IN
         IF plane.type = "PRIMARY" /\ crtcs[k].primary = 0
         THEN [crtcs EXCEPT ![k].primary = plane.id]
         ELSE IF plane.type = "CURSOR" /\ crtcs[k].cursor = 0
         THEN [crtcs EXCEPT ![k].cursor = plane.id]
         ELSE FirstFit(crtcs, plane, i + 1)

RECURSIVE InitPlanes(_, _)
\* the plane loop of initResources
InitPlanes(crtcs, i) ==
    IF i > Len(KernelPlanes) THEN crtcs
    ELSE InitPlanes(FirstFit(crtcs, KernelPlanes[i], 1), i + 1)

\* backend->crtcs after the CRTC loop of initResources, before any plane
NoPlaneCrtcs == [k \in CrtcIds |-> [primary |-> 0, cursor |-> 0]]

\* crtcs after initResources: each CRTC's primary and cursor plane id (0: none)
InitCrtcs == InitPlanes(NoPlaneCrtcs, 1)

RECURSIVE MergeInFormats(_, _, _)
\* the drmModeFormatModifierBlobIterNext loop, from blob entry i: a modifier
\* of a listed format is appended to it, one of an unlisted format makes a new
\* entry
MergeInFormats(formats, blob, i) ==
    IF i > Len(blob) THEN formats
    ELSE LET hit == {j \in DOMAIN formats : formats[j].drmFormat = blob[i].fmt}
             it  == CHOOSE j \in hit : \A x \in hit : j <= x
         IN  MergeInFormats(
                 IF hit = {}
                 THEN Append(formats, [drmFormat |-> blob[i].fmt,
                                       modifiers |-> <<blob[i].mod>>])
                 ELSE [formats EXCEPT ![it].modifiers = Append(@, blob[i].mod)],
                 blob, i + 1)

\* the format loop of SDRMPlane::init
PlaneBaseFormats(plane) ==
    [i \in DOMAIN plane.formats |->
        [drmFormat |-> plane.formats[i],
         modifiers |-> IF plane.type # "CURSOR" THEN <<"LINEAR", "INVALID">>
                       ELSE <<"LINEAR">>]]

\* does SDRMPlane::init read the IN_FORMATS blob?
PlaneReadsInFormats(plane, supportsAddFb2Modifiers) ==
    plane.in_formats # 0 /\ supportsAddFb2Modifiers

\* SDRMPlane::formats after a successful init
PlaneFormats(plane, supportsAddFb2Modifiers) ==
    IF PlaneReadsInFormats(plane, supportsAddFb2Modifiers)
    THEN MergeInFormats(PlaneBaseFormats(plane), plane.blob, 1)
    ELSE PlaneBaseFormats(plane)

----------------------------------------------------------------------------
VARIABLES
    kernel,          \* the kernel's side: resources->connectors, and the mode lists
                     \* and current modes its connectors may answer with
    consumer,        \* the output states the compositor commits
    listener,        \* what the compositor's frame listener calls back
    sessionActive,   \* backend->session->active
    ready,           \* backend->ready
    drmProps,        \* capability set cached by checkFeatures
    crtcs,           \* CRTC id -> [primary, cursor] plane ids
    planes,          \* plane id -> [front, back] framebuffer references
    connectors,      \* connector id -> SDRMConnector (with its output's state)
    order,           \* the connectors vector: created connector ids, in order
    idleCallbacks,   \* queued idle callbacks: [conn, alive, late, at]; at names the
                     \* connectors whose output was made after the callback's own
                     \* was destroyed, and may lie at its address
    pageFlips,       \* kernel: per connector, the flips submitted and not yet
                     \* completed, each with whether a disconnect came since
    unimportable,    \* buffers tagged AQ_ATTACHMENT_DRM_KMS_UNIMPORTABLE
    fbs,             \* framebuffer objects made directly: [life, buffer, id, dropped, ..]
    resources,       \* initResources: the kernel's plane list, the loop's position,
                     \* backend->planes (each plane's formats), whether it failed
    modeCalc,        \* one mode on its way through the mode arithmetic: the
                     \* requested mode, the CVT timing, modeInfo, the refresh stored
    failed,          \* buffers whose import has failed at some time (history)
    crashed,         \* the process died on a null/dangling dereference
    op,              \* the last handler that ran: [name, conn, test, ret]
    trace            \* what that handler called and emitted, in order

vars == <<kernel, consumer, listener, sessionActive, ready, drmProps, crtcs, planes, connectors, order,
          idleCallbacks, pageFlips, unimportable, fbs, resources, modeCalc, failed, crashed,
          op, trace>>

\* SDRMConnectorCommitData as default-constructed (created: mainFB is a
\* framebuffer object this commit made, not one found in a plane slot)
NoData ==
    [mainFB |-> NoFB, cursorFB |-> NoFB, blocking |-> FALSE, modeset |-> FALSE,
     flags |-> {}, test |-> FALSE, created |-> FALSE, modeInfo |-> NoModeInfo]

\* the part of the state the handlers transform, with the handler's locals
St ==
    [connectors |-> connectors, order |-> order, planes |-> planes,
     idleCallbacks |-> idleCallbacks, pageFlips |-> pageFlips,
     unimportable |-> unimportable, crashed |-> FALSE, ret |-> TRUE,
     trace |-> <<>>, data |-> NoData, committed |-> {}]

\* an output state: the committed set, the fields, and the mode and custom
\* mode as "none", "blob" (has a raw kernel mode) or "noblob"; modeId names
\* the raw kernel mode, the first listed unless the compositor picks another
OutputState(committed, enabled, mode, customMode, buffer) ==
    [committed |-> committed, enabled |-> enabled, mode |-> mode,
     customMode |-> customMode, buffer |-> buffer,
     adaptiveSync |-> FALSE, presentationMode |-> "VSYNC",
     modeId |-> IF mode = "blob" \/ customMode = "blob" THEN 1 ELSE 0]

\* COutputState as constructed
NoState == OutputState({}, FALSE, "none", "none", 0)

\* the record of a handler run: for commit and test, the connector, the
\* output state committed and the value returned
Op(name, c, test, ret, st) ==
    [name |-> name, conn |-> c, test |-> test, ret |-> ret, st |-> st]

\* the handler ended in s: a dead process keeps nothing but what it did to
\* the outside, a live one keeps s
Put(s, name, c, test, st) ==
    /\ crashed' = s.crashed
    /\ op' = Op(name, c, test, s.ret /\ ~s.crashed, st)
    /\ trace' = s.trace
    /\ UNCHANGED <<fbs, failed, listener, resources, modeCalc>>
    /\ IF s.crashed
       THEN UNCHANGED <<connectors, order, planes, idleCallbacks, pageFlips,
                        unimportable>>
       ELSE /\ connectors' = s.connectors
            /\ order' = s.order
            /\ planes' = s.planes
            /\ idleCallbacks' = s.idleCallbacks
            /\ pageFlips' = s.pageFlips
            /\ unimportable' = s.unimportable

----------------------------------------------------------------------------
(* Helpers for composing handlers *)

\* run step F on every state of S in which the process is still alive
Then(S, F(_)) == UNION { IF s.crashed THEN {s} ELSE F(s) : s \in S }

Return(s, ok) == [s EXCEPT !.ret = ok]

----------------------------------------------------------------------------
(* Mode arithmetic: calculateRefresh and calculateMode *)

RECURSIVE DivPow10(_, _, _, _)
\* 64-bit division by long division: quotient and remainder of
\* (a * 10^k + low) / d for 0 <= low < 10^k, d > 0, the quotient below 2^31
DivPow10(a, low, k, d) ==
    IF k = 0 THEN [q |-> a \div d, r |-> a % d]
    ELSE LET p == DivPow10(a, low \div 10, k - 1, d)
             n == (10 * p.r) + (low % 10)
         IN  [q |-> (10 * p.q) + (n \div d), r |-> n % d]

\* mutant: the half of vtotal is not added before the division by vtotal
CalculateRefreshTruncates(mode) ==
    LET r0 == DivPow10(mode.clock, 0, 6, mode.htotal).q \div mode.vtotal
        r1 == IF "INTERLACE" \in mode.flags THEN r0 * 2 ELSE r0
        r2 == IF "DBLSCAN" \in mode.flags THEN r1 \div 2 ELSE r1
    IN  IF mode.vscan > 1 THEN r2 \div mode.vscan ELSE r2

\* calculateRefresh: (clock * 1000000LL / htotal + vtotal / 2) / vtotal in
\* mHz, doubled for interlace, halved for double scan, divided by vscan
CalculateRefresh(mode) ==
    LET r0 == (DivPow10(mode.clock, 0, 6, mode.htotal).q + (mode.vtotal \div 2))
                 \div mode.vtotal
        r1 == IF "INTERLACE" \in mode.flags THEN r0 * 2 ELSE r0
        r2 == IF "DBLSCAN" \in mode.flags THEN r1 \div 2 ELSE r1
    IN  IF mode.vscan > 1 THEN r2 \div mode.vscan ELSE r2

\* the conversion to uint16_t
U16(x) == x % 65536

\* SDRMConnectorCommitData::calculateMode for a MODE of size pixelSize, with
\* timing what di_cvt_compute answered (clock: round(act_pixel_freq * 1000),
\* vrefresh: round(act_frame_rate)): the horizontal timings start from
\* pixelSize.y
CalculateMode(pixelSize, timing) ==
    LET hsync_start == U16(pixelSize[2] + timing.h_front_porch)
        vsync_start == U16(timing.v_lines_rnd + timing.v_front_porch)
        hsync_end   == U16(hsync_start + timing.h_sync)
        vsync_end   == U16(vsync_start + timing.v_sync)
    IN  [clock |-> timing.clock, hdisplay |-> U16(pixelSize[2]),
         hsync_start |-> hsync_start, hsync_end |-> hsync_end,
         htotal |-> U16(hsync_end + timing.h_back_porch),
         vdisplay |-> U16(timing.v_lines_rnd),
         vsync_start |-> vsync_start, vsync_end |-> vsync_end,
         vtotal |-> U16(vsync_end + timing.v_back_porch),
         vscan |-> 0, vrefresh |-> timing.vrefresh,
         flags |-> {"NHSYNC", "PVSYNC"}, name |-> pixelSize]

----------------------------------------------------------------------------
(* CDRMOutput::scheduleFrame *)

ScheduleFrame(s, c) ==
    IF s.connectors[c].isPageFlipPending THEN s
    ELSE [s EXCEPT !.idleCallbacks =
                      Append(@, [conn |-> c, alive |-> TRUE, late |-> FALSE, at |-> {}])]

----------------------------------------------------------------------------
(* SDRMConnector::connect *)

\* what drmModeGetConnector and the property reads can answer at connect:
\* the mode list, the CRTC's current mode (0: none), the non_desktop read and
\* the vrr_capable read (-1: the read failed, else the value)
DrmConnectors ==
    [modes : kernel.modes,
     current : kernel.current,
     non_desktop : {-1, 0, 1},
     vrr_capable : {-1, 1}]

\* the bytes of the kernel modes: 1920x1080 at 60 Hz, the same interlaced
\* at 30 frames, 1024x768 at 60.004 Hz
KModeInfo(id) ==
    IF id = 1 THEN ModeInfo(148500, 1920, 2200, 1080, 1125, 0, {})
    ELSE IF id = 2 THEN ModeInfo(74250, 1920, 2200, 1080, 1125, 0, {"INTERLACE"})
    ELSE IF id = 3 THEN ModeInfo(65000, 1024, 1344, 768, 806, 0, {})
    ELSE NoModeInfo

\* the mode calculated for a 1280x720 custom mode
CustomModeInfo ==
    CalculateMode(<<1280, 720>>,
                  [h_front_porch |-> 8, h_sync |-> 32, h_back_porch |-> 40,
                   v_lines_rnd |-> 720, v_front_porch |-> 3, v_sync |-> 5,
                   v_back_porch |-> 6, clock |-> 74250, vrefresh |-> 60])

\* the mode lists of the monitors of a plain run: one mode, one mode and its
\* interlaced variant; their CRTC always drives the first
StockModeLists ==
    { <<KMode(1, FALSE)>>, <<KMode(1, FALSE), KMode(2, TRUE)>> }

StockCurrent == {1}

\* getCurrentMode: null without a CRTC
GetCurrentMode(conn, drmConn) == IF conn.crtc = 0 THEN 0 ELSE drmConn.current

\* the mode loop of connect: does it call output->state->setMode?  It does so
\* for every listed, non-interlaced mode whose bytes DIFFER from the current
\* mode (memcmp != 0).
ConnectSetsMode(conn, drmConn) ==
    /\ GetCurrentMode(conn, drmConn) # 0
    /\ \E i \in DOMAIN drmConn.modes :
          /\ ~drmConn.modes[i].interlace
          /\ drmConn.modes[i].id # GetCurrentMode(conn, drmConn)

\* the positions in the mode list for which the loop calls setMode and sets
\* crtc->refresh
ConnectSetModeAt(conn, drmConn) ==
    {i \in DOMAIN drmConn.modes :
        /\ GetCurrentMode(conn, drmConn) # 0
        /\ ~drmConn.modes[i].interlace
        /\ drmConn.modes[i].id # GetCurrentMode(conn, drmConn)}

\* the mode the output's state holds after the loop: the last one set
ConnectModeInfo(conn, drmConn) ==
    LET at == ConnectSetModeAt(conn, drmConn)
    IN  IF at = {} THEN NoKMode
        ELSE drmConn.modes[CHOOSE i \in at : \A j \in at : j <= i]

\* mutant: the loop does not skip the interlaced modes
ConnectModesKeepsInterlaced(drmConn) == drmConn.modes

\* output->modes after the loop: the listed modes without the interlaced ones
ConnectModes(drmConn) == SelectSeq(drmConn.modes, LAMBDA m : ~m.interlace)

RECURSIVE ConnectCrtcRefresh(_, _, _, _, _)
\* crtc->refresh = calculateRefresh(drmMode), for each mode set, from index i
ConnectCrtcRefresh(s, c, conn, drmConn, i) ==
    IF i > Len(drmConn.modes) THEN s
    ELSE ConnectCrtcRefresh(
             IF i \in ConnectSetModeAt(conn, drmConn)
             THEN Log(s, [E("crtc->refresh", c)
                             EXCEPT !.refresh = CalculateRefresh(KModeInfo(drmConn.modes[i].id))])
             ELSE s, c, conn, drmConn, i + 1)

\* canDoVrr = props.vrr_capable && crtc->props.vrr_enabled &&
\*            !getDRMProp(.., props.vrr_capable, &prop) && prop
\* with prop left over from the non_desktop read when the vrr read fails
ConnectCanDoVrr(c, conn, drmConn) ==
    LET prop0 == IF drmConn.non_desktop = -1 THEN 0 ELSE drmConn.non_desktop
        prop  == IF drmConn.vrr_capable = -1 THEN prop0 ELSE drmConn.vrr_capable
    IN  /\ ConnectorProps(c).vrr_capable # 0
        /\ CrtcProps(conn.crtc).vrr_enabled # 0
        /\ drmConn.vrr_capable = -1
        /\ prop # 0

\* the tail of connect, from status = CONNECTED on
\* mutant: the output is announced whether or not the backend is ready
ConnectFinishAnnounces(s, c) ==
    [Log(s, E("events.newOutput", c))
        EXCEPT !.connectors[c].status = "CONNECTED",
               !.connectors[c].announced = @ + 1]

ConnectFinish(s, c) ==
    LET s1 == [s EXCEPT !.connectors[c].status = "CONNECTED"]
    IN  IF ~ready THEN s1
        ELSE ScheduleFrame([Log(s1, E("events.newOutput", c))
                               EXCEPT !.connectors[c].announced = @ + 1], c)

Connect(s, c, drmConn) ==
    LET conn == s.connectors[c] IN
    IF conn.output THEN {s}
    ELSE
      LET s1 == [ConnectCrtcRefresh(s, c, conn, drmConn, 1)
                    EXCEPT \* the new output may take the address of a destroyed one
                           !.idleCallbacks =
                               [i \in DOMAIN @ |->
                                   IF @[i].alive THEN @[i]
                                   ELSE [@[i] EXCEPT !.at = @ \cup {c}]],
                           !.connectors[c].output = TRUE,
                           !.connectors[c].modes = ConnectModes(drmConn),
                           !.connectors[c].mode =
                               IF ConnectSetsMode(conn, drmConn) THEN "blob" ELSE "none",
                           !.connectors[c].modeInfo = ConnectModeInfo(conn, drmConn),
                           !.connectors[c].customMode = "none",
                           !.connectors[c].driving = KModeInfo(GetCurrentMode(conn, drmConn))]
          \* crtc->props read through a null crtc
          vrr == IF ConnectorProps(c).vrr_capable # 0 /\ conn.crtc = 0
                 THEN UNION { IF d.crashed THEN {d}
                              ELSE { [d EXCEPT !.connectors[c].canDoVrr = g] :
                                       g \in BOOLEAN }
                              : d \in Deref(s1, c, "crtc") }
                 ELSE { [s1 EXCEPT !.connectors[c].canDoVrr =
                                       ConnectCanDoVrr(c, conn, drmConn)] }
      IN  Then(vrr, LAMBDA d : {ConnectFinish(d, c)})

----------------------------------------------------------------------------
(* SDRMConnector::disconnect *)

\* mutant: disconnect drops the output and forgets to set the status
DisconnectKeepsStatus(s, c) ==
    IF ~s.connectors[c].output THEN s
    ELSE [Log(s, E("events.destroy", c)) EXCEPT !.connectors[c].output = FALSE]

Disconnect(s, c) ==
    IF ~s.connectors[c].output THEN s
    ELSE
      LET s1 == Log(s, E("events.destroy", c))
      IN  [s1 EXCEPT
             \* output.reset(): the output, its state and every callback that
             \* captured it are gone
             !.connectors[c].output = FALSE,
             !.connectors[c].announced = 0,
             !.connectors[c].mode = "none",
             !.connectors[c].customMode = "none",
             !.connectors[c].modes = <<>>,
             !.connectors[c].modeInfo = NoKMode,
             \* kernel side: what the CRTC drives is not known until the next
             \* connect asks
             !.connectors[c].driving = NoModeInfo,
             !.idleCallbacks =
                 [i \in DOMAIN @ |->
                     IF @[i].alive
                     THEN IF @[i].conn = c THEN [@[i] EXCEPT !.alive = FALSE] ELSE @[i]
                     ELSE [@[i] EXCEPT !.at = @ \ {c}]],
             \* kernel side: the flips in flight now predate a disconnect
             !.pageFlips[c] = [i \in DOMAIN @ |-> TRUE],
             !.connectors[c].status = "DISCONNECTED"]

----------------------------------------------------------------------------
(* CDRMBackend::scanConnectors *)

\* SDRMConnector::init with getCurrentCRTC: crtcID is the kernel's CRTC_ID
\* for the connector (0 or unknown id: no CRTC)
ConnectorInit(s, c, crtcID) ==
    [s EXCEPT !.connectors[c] =
                  [NewConnector EXCEPT !.created = TRUE,
                                       !.crtc = IF crtcID \in CrtcIds THEN crtcID ELSE 0],
              !.order = Append(@, c)]

\* mutant: the scan does not look for the connector it already has
ScanLookupAlwaysNew(s, c) ==
    {Log(s, [E("SDRMConnector::init", c) EXCEPT !.ok = FALSE])}
    \cup { ConnectorInit(Log(s, E("SDRMConnector::init", c)), c, crtcID) :
             crtcID \in {0} \cup CrtcIds }

\* find_if / emplace_back / init: the connector objects the scan may go on with
\* (an unchanged s with the connector still not created: init failed, pop_back)
ScanLookup(s, c) ==
    IF s.connectors[c].created THEN {s}
    ELSE {Log(s, [E("SDRMConnector::init", c) EXCEPT !.ok = FALSE])}
         \cup { ConnectorInit(Log(s, E("SDRMConnector::init", c)), c, crtcID) :
                  crtcID \in {0} \cup CrtcIds }

\* mutant: the connector's CRTC is asked for again when it becomes connected
ScanTransitionRereadsCrtc(s, c, connection) ==
    IF ~s.connectors[c].created THEN {s}
    ELSE IF s.connectors[c].status = "DISCONNECTED" /\ connection = "CONNECTED"
    THEN UNION { Connect([s EXCEPT !.connectors[c].crtc = k], c, drmConn) :
                   k \in {0} \cup CrtcIds, drmConn \in DrmConnectors }
    ELSE IF s.connectors[c].status = "CONNECTED" /\ connection = "DISCONNECTED"
    THEN {Disconnect(s, c)}
    ELSE {s}

\* the status transition for one kernel connector
ScanTransition(s, c, connection) ==
    IF ~s.connectors[c].created THEN {s}
    ELSE IF s.connectors[c].status = "DISCONNECTED" /\ connection = "CONNECTED"
    THEN UNION { Connect(s, c, drmConn) : drmConn \in DrmConnectors }
    ELSE IF s.connectors[c].status = "CONNECTED" /\ connection = "DISCONNECTED"
    THEN {Disconnect(s, c)}
    ELSE {s}

\* one turn of the loop over resources->connectors
ScanConnector(s, c) ==
    {Log(s, [E("drmModeGetConnector", c) EXCEPT !.ok = FALSE])}
    \cup UNION { Then(ScanLookup(Log(s, [E("drmModeGetConnector", c)
                                           EXCEPT !.connection = connection]), c),
                      LAMBDA s1 : ScanTransition(s1, c, connection)) :
                   connection \in {"CONNECTED", "DISCONNECTED", "UNKNOWN"} }

RECURSIVE ScanLoop(_, _)
ScanLoop(S, i) ==
    IF i > Len(kernel.connectors) THEN S
    ELSE ScanLoop(Then(S, LAMBDA s : ScanConnector(s, kernel.connectors[i])), i + 1)

ScanConnectors(s) ==
    {s}   \* drmModeGetResources failed
    \cup ScanLoop({Log(s, E("getResources", 0))}, 1)

\* the gpu change listener on a hotplug event, and the initial scan of attempt()
Hotplug ==
    /\ ~crashed
    /\ \E s \in ScanConnectors(St) :
         /\ Len(s.idleCallbacks) <= MaxIdle
         /\ Put(s, "scan", 0, FALSE, NoState)
    /\ UNCHANGED <<kernel, consumer, sessionActive, ready, drmProps, crtcs>>

----------------------------------------------------------------------------
(* CDRMFB: import of a buffer as a KMS framebuffer *)

\* buffer->dmabuf() attributes that decide the import path
BufferModifier(b) ==
    IF b = 1 THEN "LINEAR" ELSE IF b = 3 THEN "INVALID" ELSE "TILED"

\* buffer->dmabuf().success: buffer 4 is not a dmabuf
BufferHasDmabuf(b) == b # 4

\* framebuffer ids the kernel has handed out and not yet taken back
LiveFBs(pl) ==
    ({pl[p].front.id : p \in PlaneIds} \cup {pl[p].back.id : p \in PlaneIds}) \ {0}

\* the id the kernel gives the next framebuffer: the lowest free one
NewFBId(s) ==
    CHOOSE n \in 1..(2 * Cardinality(PlaneIds) + 1) :
        /\ n \notin LiveFBs(s.planes)
        /\ \A m \in 1..(n - 1) : m \in LiveFBs(s.planes)

\* mutant: without modifier support every buffer goes to drmModeAddFB2
SubmitCallNoReject(b) ==
    IF drmProps.supportsAddFb2Modifiers /\ BufferModifier(b) # "INVALID"
    THEN "drmModeAddFB2WithModifiers"
    ELSE "drmModeAddFB2"

\* CDRMFB::submitBuffer: the AddFB call made, or "none" when the buffer is
\* refused before any call
SubmitCall(b) ==
    IF drmProps.supportsAddFb2Modifiers /\ BufferModifier(b) # "INVALID"
    THEN "drmModeAddFB2WithModifiers"
    ELSE IF BufferModifier(b) # "INVALID" /\ BufferModifier(b) # "LINEAR"
    THEN "none"
    ELSE "drmModeAddFB2"

\* the framebuffer was made: data.mainFB holds it
FBCreated(s, c, b) ==
    [Log(s, [E(SubmitCall(b), c) EXCEPT !.buf = b, !.fb = NewFBId(s)])
        EXCEPT !.data.mainFB = [id |-> NewFBId(s), buffer |-> b],
               !.data.created = TRUE]

\* submitBuffer returned 0: the buffer is tagged unimportable
FBSubmitFailed(s, c, b) ==
    LET s1 == IF SubmitCall(b) = "none" THEN s
              ELSE Log(s, [E(SubmitCall(b), c) EXCEPT !.buf = b, !.ok = FALSE])
    IN  [s1 EXCEPT !.unimportable = @ \cup {b}]

\* CDRMFB::create(buf): the constructor's outcomes; data.mainFB stays NoFB
\* when no framebuffer is produced
CreateFB(s, c, b) ==
    LET s0 == Log(s, [E("CDRMFB::create", c) EXCEPT !.buf = b]) IN
    {s0}   \* attrs.success is false: no dmabuf
    \cup
    IF b \in s0.unimportable THEN {s0}
    ELSE
      {Log(s0, [E("drmPrimeFDToHandle", c) EXCEPT !.buf = b, !.ok = FALSE])}
      \cup
      LET s1 == Log(s0, [E("drmPrimeFDToHandle", c) EXCEPT !.buf = b]) IN
      {FBSubmitFailed(s1, c, b)}
      \cup (IF SubmitCall(b) = "none" THEN {} ELSE {FBCreated(s1, c, b)})

----------------------------------------------------------------------------
(* The commit engine (IDRMImplementation): its code is not in this file.    *)
(* It owns the kernel calls, answers whether the submission was accepted,  *)
(* and an accepted non-blocking, non-test commit leaves a page-flip        *)
(* pending; a blocking or a test commit never does.                        *)

EngineEntry(c, data, ok) ==
    [E("impl->commit", c) EXCEPT !.buf = data.mainFB.buffer, !.fb = data.mainFB.id,
                                 !.ok = ok, !.blocking = data.blocking,
                                 !.modeset = data.modeset, !.test = data.test]

EngineFlips(data) == ~data.test /\ ~data.blocking

EngineCommit(s, c, data) ==
    {Return(Log(s, EngineEntry(c, data, FALSE)), FALSE)}
    \cup
    IF EngineFlips(data)
    THEN IF Len(s.pageFlips[c]) >= MaxFlips THEN {}   \* the kernel answers EBUSY
         ELSE {[Return(Log(s, EngineEntry(c, data, TRUE)), TRUE)
                   EXCEPT !.pageFlips[c] = Append(@, FALSE),
                          !.connectors[c].isPageFlipPending = TRUE]}
    ELSE {Return(Log(s, EngineEntry(c, data, TRUE)), TRUE)}

EngineReset(s, c) ==
    { Log(s, [E("impl->reset", c) EXCEPT !.ok = ok]) : ok \in BOOLEAN }

----------------------------------------------------------------------------
(* SDRMConnector::commitState / applyCommit / rollbackCommit *)

\* CDRMFB::drop of the framebuffer id, its last holder gone: drmModeCloseFB,
\* and drmModeRmFB when that answers -EINVAL
DropFB(s, c, id) ==
    LET close(ok) == [E("drmModeCloseFB", c) EXCEPT !.fb = id, !.ok = ok]
        rm(ok) == [E("drmModeRmFB", c) EXCEPT !.fb = id, !.ok = ok]
    IN  { Log(s, close(TRUE)),
          \* ret is an error other than -EINVAL
          Log(s, close(FALSE)),
          \* ret == -EINVAL: drmModeRmFB
          Log(Log(s, close(FALSE)), rm(TRUE)),
          Log(Log(s, close(FALSE)), rm(FALSE)) }

RECURSIVE DropFBs(_, _, _)
\* the framebuffers ids are dropped, in the order of their ids
DropFBs(S, c, ids) ==
    IF ids = {} THEN S
    ELSE LET i == CHOOSE x \in ids : \A y \in ids : x <= y
         IN  DropFBs(UNION { DropFB(s, c, i) : s \in S }, c, ids \ {i})

\* the commit data goes away at the return of CDRMOutput::commitState: its
\* framebuffer is dropped unless a plane slot holds it
ReleaseFBs(s, c) ==
    DropFBs({s}, c, ({s.data.mainFB.id} \ {0}) \ LiveFBs(s.planes))

\* mutant: the new framebuffer is installed, the old front is not kept as back
RotatePlaneKeepsBack(pl, p, fb) ==
    [pl EXCEPT ![p].front = fb]

RotatePlane(pl, p, fb) ==
    [pl EXCEPT ![p] = [front |-> fb, back |-> pl[p].front]]

\* the tail of applyCommit: refresh = calculateRefresh(data.modeInfo) when
\* MODE is committed; the kernel now drives that mode
ApplyCommitRefresh(s, c, data) ==
    IF "MODE" \notin s.committed THEN s
    ELSE IF data.modeInfo.htotal = 0 \/ data.modeInfo.vtotal = 0
    THEN \* a division by zero
         [Log(s, [E("ub", c) EXCEPT !.ptr = "modeInfo"]) EXCEPT !.crashed = TRUE]
    ELSE [s EXCEPT !.connectors[c].refresh = CalculateRefresh(data.modeInfo),
                   !.connectors[c].driving = data.modeInfo]

\* back = front; front = fb on plane p: the framebuffer the back slot held
\* is dropped there when nothing else holds it
ApplyRotate(s, c, p, fb) ==
    LET pl == RotatePlane(s.planes, p, fb)
    IN  DropFBs({[s EXCEPT !.planes = pl]}, c,
                (LiveFBs(s.planes) \ LiveFBs(pl)) \ {fb.id})

ApplyCommit(s, c, data) ==
    LET crtc == crtcs[s.connectors[c].crtc]
        cur(st) == IF crtc.cursor = 0 THEN {st}
                   ELSE ApplyRotate(st, c, crtc.cursor, data.cursorFB)
    IN  Then(Then(IF crtc.primary = 0
                  THEN \* crtc->primary->back = ... through a null primary
                       Deref(s, c, "primary")
                  ELSE ApplyRotate(s, c, crtc.primary, data.mainFB),
                  cur),
             LAMBDA d : {ApplyCommitRefresh(d, c, data)})

\* mutant: a failed or test commit installs its framebuffer all the same
RollbackCommitApplies(s, c, data) ==
    LET p == crtcs[s.connectors[c].crtc].primary
    IN  IF p = 0 THEN s ELSE [s EXCEPT !.planes = RotatePlane(@, p, data.mainFB)]

RollbackCommit(s, c, data) == s

ConnectorCommitState(s, c, data) ==
    Then(EngineCommit(s, c, data),
         LAMBDA s1 : IF s1.ret /\ ~data.test
                     THEN ApplyCommit(s1, c, data)
                     ELSE {RollbackCommit(s1, c, data)})

----------------------------------------------------------------------------
(* CDRMOutput::commitState *)

STATE_NEEDS_RECONFIG == {"ENABLED", "FORMAT", "MODE"}

NeedsReconfig(st) == st.committed \cap STATE_NEEDS_RECONFIG # {}
Blocking(st) == NeedsReconfig(st) \/ "BUFFER" \notin st.committed
ModeOf(st) == IF st.mode # "none" THEN st.mode ELSE st.customMode

\* mutant: the session check is missing
CommitRefusalNoSession(conn, st) ==
    IF conn.crtc = 0 THEN "No CRTC attached to output"
    ELSE IF "BUFFER" \in st.committed /\ st.buffer = 0 THEN "No buffer committed"
    ELSE ""

\* the checks that return false before anything is computed; "" when all pass
CommitRefusal(conn, st) ==
    IF ~sessionActive THEN "Session inactive"
    ELSE IF conn.crtc = 0 THEN "No CRTC attached to output"
    ELSE IF "ENABLED" \in st.committed /\ st.enabled
            /\ st.mode = "none" /\ st.customMode # "none"
    THEN "No mode on enable commit"
    ELSE IF st.adaptiveSync /\ ~conn.canDoVrr
    THEN "No Adaptive sync support for output"
    ELSE IF st.presentationMode = "IMMEDIATE" /\ ~drmProps.supportsAsyncCommit
    THEN "No Immediate presentation support in the backend"
    ELSE IF "BUFFER" \in st.committed /\ st.buffer = 0 THEN "No buffer committed"
    ELSE ""

\* mutant: no pending page-flip gate
CommitGateOff(conn, st, onlyTest) == FALSE

\* mutant: the gate tests BLOCKING instead of !BLOCKING
CommitGateInverted(conn, st, onlyTest) ==
    ~onlyTest /\ Blocking(st) /\ conn.isPageFlipPending

\* mutant: the gate sits in the branch that disables the output
CommitGateWhenDisabled(conn, st, onlyTest) ==
    ~onlyTest /\ ~st.enabled /\ ~Blocking(st) /\ conn.isPageFlipPending

\* the pending page-flip gate
CommitGate(conn, st, onlyTest) ==
    ~onlyTest /\ ~Blocking(st) /\ conn.isPageFlipPending

CommitFlags(st, onlyTest) ==
    IF onlyTest THEN {}
    ELSE (IF st.enabled THEN {"PAGE_FLIP_EVENT"} ELSE {})
         \cup (IF st.presentationMode = "IMMEDIATE" THEN {"PAGE_FLIP_ASYNC"} ELSE {})

\* mutant: every committed buffer is imported anew
CommitBufferAlwaysImports(s, c, st) ==
    IF st.buffer = 0 THEN {s} ELSE CreateFB(s, c, st.buffer)

\* the block under if (STATE.buffer): find the buffer in the primary plane's
\* back or front slot, else import it
CommitBuffer(s, c, st) ==
    IF st.buffer = 0 THEN {s}
    ELSE
      LET p == crtcs[s.connectors[c].crtc].primary IN
      IF p = 0
      THEN \* crtc->primary->back through a null primary; garbage matches nothing
           Then(Deref(s, c, "primary"), LAMBDA d : CreateFB(d, c, st.buffer))
      ELSE IF s.planes[p].back.id # 0 /\ s.planes[p].back.buffer = st.buffer
      THEN {[s EXCEPT !.data.mainFB = s.planes[p].back]}
      ELSE IF s.planes[p].front.id # 0 /\ s.planes[p].front.buffer = st.buffer
      THEN {[s EXCEPT !.data.mainFB = s.planes[p].front]}
      ELSE CreateFB(s, c, st.buffer)

\* MODE->modeInfo / calculateMode: both read through MODE
CommitModeInfo(s, c, st) ==
    IF ModeOf(st) = "none" THEN Deref(s, c, "MODE") ELSE {s}

\* data.modeInfo: MODE->modeInfo when the mode has one, the calculated mode
\* otherwise
CommitDataModeInfo(st) ==
    IF ModeOf(st) = "blob" THEN KModeInfo(st.modeId)
    ELSE IF ModeOf(st) = "noblob" THEN CustomModeInfo
    ELSE NoModeInfo

\* from the engine call to the return
CommitSubmit(s, c, st, onlyTest) ==
    LET data == [s.data EXCEPT !.blocking = Blocking(st),
                               !.modeset = NeedsReconfig(st),
                               !.flags = CommitFlags(st, onlyTest),
                               !.test = onlyTest,
                               !.modeInfo = CommitDataModeInfo(st)]
    IN  Then(Then(CommitModeInfo([s EXCEPT !.data = data], c, st),
                  LAMBDA s1 : ConnectorCommitState(s1, c, data)),
             LAMBDA s2 : ReleaseFBs(Log(s2, E("events.commit", c)), c))

CommitState(s, c, st, onlyTest) ==
    LET conn == s.connectors[c]
        \* the consumer has set the output's state before the call
        s0 == [s EXCEPT !.connectors[c].mode = st.mode,
                        !.connectors[c].customMode = st.customMode,
                        !.connectors[c].modeInfo =
                            IF st.mode = "blob" THEN KMode(st.modeId, FALSE)
                            ELSE NoKMode,
                        !.committed = st.committed]
    IN  IF CommitRefusal(conn, st) # "" THEN {Return(s0, FALSE)}
        ELSE
          LET logged == IF ~onlyTest /\ NeedsReconfig(st) /\ st.enabled
                           /\ ModeOf(st) = "none"
                        THEN Deref(s0, c, "MODE")    \* MODE->pixelSize in the log line
                        ELSE {s0}
          IN  Then(logged, LAMBDA s1 :
                IF CommitGate(conn, st, onlyTest) THEN {Return(s1, FALSE)}
                ELSE Then(CommitBuffer(s1, c, st), LAMBDA s2 :
                       IF st.buffer # 0 /\ s2.data.mainFB = NoFB
                       THEN {Return(s2, FALSE)}   \* Buffer failed to import to KMS
                       ELSE CommitSubmit(s2, c, st, onlyTest)))

\* the output states of a compositor in normal operation: a page-flip of each
\* buffer, a modeset, a commit of nothing (which takes the buffer off the
\* screen), and BUFFER committed without a buffer
FlipStates ==
    { OutputState({"BUFFER"}, TRUE, "blob", "none", b) : b \in Buffers }
    \cup
    { OutputState({"ENABLED", "MODE", "BUFFER"}, TRUE, "blob", "none", 1),
      OutputState({}, TRUE, "blob", "none", 0),
      OutputState({"BUFFER"}, TRUE, "blob", "none", 0) }

\* the output states at the edges of the preconditions: enabling with no mode
\* at all and with a custom mode only, disabling, a page-flip with no mode and
\* one on a disabled output, a format change, a buffer set but not committed,
\* adaptive sync, immediate presentation
EdgeStates ==
    { OutputState({"ENABLED"}, TRUE, "none", "none", 0),
      OutputState({"ENABLED", "MODE"}, TRUE, "none", "noblob", 0),
      OutputState({"ENABLED"}, FALSE, "none", "none", 0),
      OutputState({"BUFFER"}, TRUE, "none", "none", 1),
      OutputState({"BUFFER"}, FALSE, "blob", "none", 1),
      OutputState({"FORMAT", "BUFFER"}, TRUE, "blob", "none", 1),
      OutputState({}, TRUE, "blob", "none", 1),
      [OutputState({"BUFFER"}, TRUE, "blob", "none", 1) EXCEPT !.adaptiveSync = TRUE],
      [OutputState({"BUFFER"}, TRUE, "blob", "none", 1)
          EXCEPT !.presentationMode = "IMMEDIATE"] }

\* a CDRMFB object: life is "none" before its construction, "live" from the
\* constructor's return on, "gone" after the destructor; closes counts the
\* drmModeCloseFB calls made for it, released the release calls the kernel
\* accepted
NoFBObj ==
    [life |-> "none", buffer |-> 0, id |-> 0, dropped |-> FALSE, closes |-> 0,
     released |-> 0]

\* initResources when it has returned true on the kernel planes kplanes
ResourcesDone(kplanes, supportsAddFb2Modifiers) ==
    [planes |-> kplanes, next |-> Len(kplanes) + 1, failed |-> FALSE,
     formats |-> [i \in DOMAIN kplanes |->
                     PlaneFormats(kplanes[i], supportsAddFb2Modifiers)]]

\* no mode is being made or calculated
NoModeCalc ==
    [stage |-> "none", pixelSize |-> <<0, 0>>, refreshRate |-> 0,
     timing |-> [h_front_porch |-> 0, h_sync |-> 0, h_back_porch |-> 0,
                 v_lines_rnd |-> 0, v_front_porch |-> 0, v_sync |-> 0,
                 v_back_porch |-> 0, clock |-> 0, vrefresh |-> 0],
     modeInfo |-> NoModeInfo, refresh |-> 0]

\* the CDRMBackend as constructed: no connector object, nothing in a plane
\* slot, nothing queued
Constructed ==
    [connectors |-> [c \in ConnIds |-> NewConnector], order |-> <<>>,
     planes |-> [p \in PlaneIds |-> [front |-> NoFB, back |-> NoFB]],
     idleCallbacks |-> <<>>, pageFlips |-> [c \in ConnIds |-> <<>>],
     unimportable |-> {}, crashed |-> FALSE, ret |-> TRUE, trace |-> <<>>,
     data |-> NoData, committed |-> {}]

\* the kernel, the compositor and the session attempt() starts with, and the
\* capabilities checkFeatures caches
InitKernel(kconns, sts, props, modes, current) ==
    /\ kernel = [connectors |-> kconns, modes |-> modes, current |-> current]
    /\ consumer = sts
    /\ sessionActive = TRUE
    /\ ready = FALSE
    /\ drmProps = props
    /\ fbs = [o \in 1..MaxFBs |-> NoFBObj]
    /\ failed = {}

\* the backend's state is s, left by the step name of attempt(): a dead
\* process keeps nothing but what it did to the outside
InitPut(s, name) ==
    LET k == IF s.crashed THEN Constructed ELSE s
    IN  /\ crashed = s.crashed
        /\ op = Op(name, 0, FALSE, s.ret /\ ~s.crashed, NoState)
        /\ trace = s.trace
        /\ connectors = k.connectors
        /\ order = k.order
        /\ planes = k.planes
        /\ idleCallbacks = k.idleCallbacks
        /\ pageFlips = k.pageFlips
        /\ unimportable = k.unimportable

\* the scanConnectors() that ends attempt()
AttemptScan ==
    \E s \in ScanConnectors(Constructed) : InitPut(s, "scan")

\* the state after the CDRMBackend is constructed and checkFeatures has run,
\* but for what initResources sets up and for the mode in the arithmetic, on
\* a kernel whose connectors answer with the mode lists modes and the
\* current modes current
InitMonitors(kconns, sts, props, modes, current) ==
    /\ InitKernel(kconns, sts, props, modes, current)
    /\ InitPut(Constructed, "init")

\* the same with the monitors of a plain run
InitConstructed(kconns, sts, props) ==
    InitMonitors(kconns, sts, props, StockModeLists, StockCurrent)

\* the same with no mode in the arithmetic
InitBackend(kconns, sts, props) ==
    /\ InitConstructed(kconns, sts, props)
    /\ modeCalc = NoModeCalc

\* the state attempt() returns in: the CDRMBackend is constructed,
\* checkFeatures, initResources and the first scanConnectors have run, on a
\* kernel that lists the connectors kconns, for a compositor that commits
\* the states sts
InitWithProps(kconns, sts, props) ==
    /\ InitKernel(kconns, sts, props, StockModeLists, StockCurrent)
    /\ modeCalc = NoModeCalc
    /\ resources = ResourcesDone(KernelPlanes, props.supportsAddFb2Modifiers)
    /\ crtcs = InitCrtcs
    /\ AttemptScan

\* the same on a driver with add-FB-with-modifiers and without async page-flip
InitWith(kconns, sts) ==
    /\ InitWithProps(kconns, sts,
                     [supportsAsyncCommit |-> FALSE, supportsAddFb2Modifiers |-> TRUE])
    /\ listener = "none"

\* one connector, a compositor in normal operation
Init == InitWith(<<1>>, FlipStates)

\* CDRMOutput::commit
Commit ==
    /\ ~crashed
    /\ \E c \in ConnIds, st \in consumer :
         /\ connectors[c].output
         /\ \E s \in CommitState(St, c, st, FALSE) : Put(s, "commit", c, FALSE, st)
    /\ UNCHANGED <<kernel, consumer, sessionActive, ready, drmProps, crtcs>>

\* CDRMOutput::test
Test ==
    /\ ~crashed
    /\ \E c \in ConnIds, st \in consumer :
         /\ connectors[c].output
         /\ \E s \in CommitState(St, c, st, TRUE) : Put(s, "commit", c, TRUE, st)
    /\ UNCHANGED <<kernel, consumer, sessionActive, ready, drmProps, crtcs>>

\* CDRMOutput::scheduleFrame, called by the compositor
Schedule ==
    /\ ~crashed
    /\ Len(idleCallbacks) < MaxIdle
    /\ \E c \in ConnIds :
         /\ connectors[c].output
         /\ Put(ScheduleFrame(St, c), "scheduleFrame", c, FALSE, NoState)
    /\ UNCHANGED <<kernel, consumer, sessionActive, ready, drmProps, crtcs>>

----------------------------------------------------------------------------
(* handlePF and CDRMBackend::dispatchEvents *)

\* output->scheduleFrame() called by the compositor from its frame listener,
\* outside the loop over idleCallbacks
FrameListener(s, c) ==
    IF listener # "scheduleFrame" THEN s
    ELSE ScheduleFrame(Log(s, [E("scheduleFrame", c)
                                  EXCEPT !.ok = ~s.connectors[c].isPageFlipPending]), c)

\* the same from a callback the loop over idleCallbacks is running: the
\* emplace_back leaves the new callback behind the loop's end, and when the
\* vector has to grow it invalidates the loop's iterators
FrameListenerInLoop(s, c) ==
    IF listener # "scheduleFrame" THEN {s}
    ELSE IF s.connectors[c].isPageFlipPending
    THEN {Log(s, [E("scheduleFrame", c) EXCEPT !.ok = FALSE])}
    ELSE LET s1 == Log(s, E("scheduleFrame", c))
             add(d) == [d EXCEPT !.idleCallbacks =
                           Append(@, [conn |-> c, alive |-> TRUE, late |-> TRUE, at |-> {}])]
         IN  {add(s1)} \cup Then(Deref(s1, c, "iterator"), LAMBDA d : {add(d)})

\* the refresh field of the present event: the frame interval in ns of the
\* connector's refresh in mHz, 0 when that is 0
PresentRefresh(conn) ==
    IF conn.refresh # 0 THEN DivPow10(1000000, 0, 6, conn.refresh).q ELSE 0

\* mutant: the present event always says presented, the frame event always
\* follows
HandlePFIgnoresSession(s, c) ==
    LET flip == Head(s.pageFlips[c])
        s1 == [s EXCEPT !.pageFlips[c] = Tail(@),
                        !.connectors[c].isPageFlipPending = FALSE]
        conn == s.connectors[c]
    IN  IF conn.status # "CONNECTED" \/ conn.crtc = 0 THEN s1
        ELSE FrameListener(
                 Log(Log(s1, [E("events.present", c) EXCEPT !.stale = flip,
                                                            !.presented = TRUE,
                                                            !.refresh = PresentRefresh(conn)]),
                     [E("events.frame", c) EXCEPT !.stale = flip]), c)

\* the page-flip handler for the oldest flip in flight on connector c
HandlePF(s, c) ==
    LET flip == Head(s.pageFlips[c])
        s1 == [s EXCEPT !.pageFlips[c] = Tail(@),
                        !.connectors[c].isPageFlipPending = FALSE]
        conn == s.connectors[c]
    IN  IF conn.status # "CONNECTED" \/ conn.crtc = 0 THEN s1
        ELSE LET s2 == Log(s1, [E("events.present", c) EXCEPT !.stale = flip,
                                                       !.presented = sessionActive,
                                                       !.refresh = PresentRefresh(conn)])
             IN  IF sessionActive
                 THEN FrameListener(Log(s2, [E("events.frame", c) EXCEPT !.stale = flip]), c)
                 ELSE s2

\* the completions the kernel may have queued: the connectors of some of the
\* flips in flight, each connector's flips oldest first, the connectors in
\* any order
Deliveries(flips) ==
    {d \in UNION { [1..k -> ConnIds] : k \in 0..(MaxFlips * Cardinality(ConnIds)) } :
        \A c \in ConnIds : Cardinality({i \in DOMAIN d : d[i] = c}) <= Len(flips[c])}

RECURSIVE HandleEvents(_, _)
\* drmHandleEvent: the handler runs for the completions the kernel has
\* queued, in the order it queued them; deliver[i] is the connector of the
\* i-th
HandleEvents(s, deliver) ==
    IF Len(deliver) = 0 THEN s
    ELSE HandleEvents(HandlePF(s, deliver[1]),
                      [i \in 1..(Len(deliver) - 1) |-> deliver[i + 1]])

RECURSIVE RunIdle(_, _)
\* the loop over idleCallbacks: a callback of a destroyed output runs on a
\* dangling this (the process dies, nothing is emitted, or the frame event
\* of the output now at that address is); a callback added while the loop
\* runs is not reached
RunIdle(S, i) ==
    IF \A s \in S : s.crashed \/ i > Len(s.idleCallbacks) THEN S
    ELSE RunIdle(Then(S, LAMBDA s :
                    IF i > Len(s.idleCallbacks) THEN {s}
                    ELSE IF s.idleCallbacks[i].late THEN {s}
                    ELSE IF s.idleCallbacks[i].alive
                    THEN FrameListenerInLoop(
                             Log(s, E("idle:events.frame", s.idleCallbacks[i].conn)),
                             s.idleCallbacks[i].conn)
                    ELSE Deref(s, s.idleCallbacks[i].conn, "this")
                         \cup
                         \* the emit reaches the output that now lies there
                         UNION { FrameListenerInLoop(
                                     Log(Log(s, [E("ub", s.idleCallbacks[i].conn)
                                                    EXCEPT !.ptr = "this"]),
                                         E("idle:events.frame", c2)), c2) :
                                   c2 \in s.idleCallbacks[i].at }), i + 1)

DispatchEvents(s, deliver) ==
    Then(RunIdle({HandleEvents(s, deliver)}, 1),
         LAMBDA d : {[d EXCEPT !.idleCallbacks = <<>>]})

Dispatch ==
    /\ ~crashed
    /\ \E deliver \in Deliveries(pageFlips) :
         \E s \in DispatchEvents(St, deliver) : Put(s, "dispatchEvents", 0, FALSE, NoState)
    /\ UNCHANGED <<kernel, consumer, sessionActive, ready, drmProps, crtcs>>

----------------------------------------------------------------------------
(* CDRMBackend::onReady *)

RECURSIVE AnnounceOutputs(_, _)
AnnounceOutputs(s, i) ==
    IF i > Len(s.order) THEN s
    ELSE AnnounceOutputs(IF s.connectors[s.order[i]].output
                         THEN [Log(s, E("events.newOutput", s.order[i]))
                                  EXCEPT !.connectors[s.order[i]].announced = @ + 1]
                         ELSE s, i + 1)

OnReady ==
    /\ ~crashed
    /\ ~ready
    /\ ready' = TRUE
    /\ Put(AnnounceOutputs(St, 1), "onReady", 0, FALSE, NoState)
    /\ UNCHANGED <<kernel, consumer, sessionActive, drmProps, crtcs>>

----------------------------------------------------------------------------
(* CDRMBackend::restoreAfterVT and the session listener *)

RECURSIVE RestoreResets(_, _)
\* the first loop: impl->reset on every connector with a CRTC
RestoreResets(S, i) ==
    IF \A s \in S : s.crashed \/ i > Len(s.order) THEN S
    ELSE RestoreResets(Then(S, LAMBDA s :
                         IF i > Len(s.order) THEN {s}
                         ELSE IF s.connectors[s.order[i]].crtc = 0 THEN {s}
                         ELSE EngineReset(s, s.order[i])), i + 1)

\* the commit data of the second loop
RestoreData ==
    [NoData EXCEPT !.modeset = TRUE, !.blocking = TRUE, !.flags = {}, !.test = FALSE]

\* the commit data with data.modeInfo set: c->output->state->state().mode's
\* raw mode, and calculateMode when it has none
RestoreModeInfo(s, c) ==
    LET conn == s.connectors[c]
        s0 == [s EXCEPT !.data = RestoreData]
    IN  IF ~conn.output THEN Deref(s0, c, "output")      \* c->output is null
        ELSE IF conn.mode = "blob"
        THEN {[s0 EXCEPT !.data.modeInfo = KModeInfo(conn.modeInfo.id)]}
        ELSE IF conn.mode = "none" /\ conn.customMode = "none"
        THEN Deref(s0, c, "MODE")                        \* MODE is null in calculateMode
        ELSE {[s0 EXCEPT !.data.modeInfo = CustomModeInfo]}

RECURSIVE RestoreCommits(_, _)
\* the second loop: the restore commit of every connector with a CRTC
RestoreCommits(S, i) ==
    IF \A s \in S : s.crashed \/ i > Len(s.order) THEN S
    ELSE RestoreCommits(Then(S, LAMBDA s :
                          IF i > Len(s.order) THEN {s}
                          ELSE IF s.connectors[s.order[i]].crtc = 0 THEN {s}
                          ELSE Then(RestoreModeInfo(s, s.order[i]),
                                    LAMBDA s1 : EngineCommit(s1, s.order[i], s1.data))),
                        i + 1)

RestoreAfterVT(s) ==
    { Return(r, TRUE) : r \in RestoreCommits(RestoreResets(ScanConnectors(s), 1), 1) }

\* session->events.changeActive with the session now inactive
Deactivate ==
    /\ ~crashed
    /\ sessionActive
    /\ sessionActive' = FALSE
    /\ Put(St, "sessionActivate", 0, FALSE, NoState)
    /\ UNCHANGED <<kernel, consumer, ready, drmProps, crtcs>>

\* session->events.changeActive with the session now active
Activate ==
    /\ ~crashed
    /\ ~sessionActive
    /\ sessionActive' = TRUE
    /\ \E s \in RestoreAfterVT(St) :
         /\ Len(s.idleCallbacks) <= MaxIdle
         /\ Put(s, "restoreAfterVT", 0, FALSE, NoState)
    /\ UNCHANGED <<kernel, consumer, ready, drmProps, crtcs>>

----------------------------------------------------------------------------
(* The CDRMFB class on its own: constructor, drop(), destructor.            *)

FBObjs == 1..MaxFBs

\* the buffers handed to the constructor: linear, tiled, with an invalid
\* modifier, and one that is not a dmabuf
FBBuffers == {1, 2, 3, 4}

\* the kernel ids of the framebuffers made here and not released
FBLiveIds ==
    {fbs[o].id : o \in {x \in FBObjs : fbs[x].released = 0}} \ {0}

\* the id the kernel gives the next framebuffer: the lowest free one
FBNewId ==
    CHOOSE n \in 1..(MaxFBs + 1) :
        n \notin FBLiveIds /\ \A m \in 1..(n - 1) : m \in FBLiveIds

\* mutant: drop() without the dropped guard
FBDropUnguarded(fb) ==
    LET f2 == [fb EXCEPT !.dropped = TRUE, !.closes = @ + 1, !.released = @ + 1]
    IN  IF fb.id = 0 THEN {[fb |-> [fb EXCEPT !.dropped = TRUE], log |-> <<>>]}
        ELSE {[fb |-> f2,
               log |-> <<[E("drmModeCloseFB", 0) EXCEPT !.fb = fb.id]>>]}

\* CDRMFB::drop on the object fb: the object after it and the kernel calls made
FBDrop(fb) ==
    IF fb.dropped THEN {[fb |-> fb, log |-> <<>>]}
    ELSE
      LET f1 == [fb EXCEPT !.dropped = TRUE]
          f2 == [f1 EXCEPT !.closes = @ + 1]
          close(ok) == [E("drmModeCloseFB", 0) EXCEPT !.fb = fb.id, !.ok = ok]
          rm(ok) == [E("drmModeRmFB", 0) EXCEPT !.fb = fb.id, !.ok = ok]
      IN  IF fb.id = 0 THEN {[fb |-> f1, log |-> <<>>]}
          ELSE { [fb |-> [f2 EXCEPT !.released = @ + 1], log |-> <<close(TRUE)>>],
                 \* ret is an error other than -EINVAL
                 [fb |-> f2, log |-> <<close(FALSE)>>],
                 \* ret == -EINVAL: drmModeRmFB
                 [fb |-> [f2 EXCEPT !.released = @ + 1], log |-> <<close(FALSE), rm(TRUE)>>],
                 [fb |-> f2, log |-> <<close(FALSE), rm(FALSE)>>] }

\* the constructor on buffer b: the object, whether the buffer was tagged
\* unimportable, and the kernel calls made
FBCtor(b) ==
    LET fb0 == [NoFBObj EXCEPT !.life = "live", !.buffer = b]
        prime(ok) == [E("drmPrimeFDToHandle", 0) EXCEPT !.buf = b, !.ok = ok]
        addfb(ok, id) == [E(SubmitCall(b), 0) EXCEPT !.buf = b, !.fb = id, !.ok = ok]
        dropped(tagged, log) ==
            { [fb |-> r.fb, tagged |-> tagged, log |-> log \o r.log] : r \in FBDrop(fb0) }
    IN  IF ~BufferHasDmabuf(b) THEN {[fb |-> fb0, tagged |-> FALSE, log |-> <<>>]}
        ELSE IF b \in unimportable THEN {[fb |-> fb0, tagged |-> FALSE, log |-> <<>>]}
        ELSE dropped(FALSE, <<prime(FALSE)>>)
             \cup
             (IF SubmitCall(b) = "none" THEN dropped(TRUE, <<prime(TRUE)>>)
              ELSE dropped(TRUE, <<prime(TRUE), addfb(FALSE, 0)>>)
                   \cup {[fb |-> [fb0 EXCEPT !.id = FBNewId], tagged |-> FALSE,
                          log |-> <<prime(TRUE), addfb(TRUE, FBNewId)>>]})

\* new CDRMFB(buffer, backend)
FBConstruct ==
    /\ ~crashed
    /\ \E o \in FBObjs, b \in FBBuffers :
         /\ fbs[o].life = "none"
         /\ \E r \in FBCtor(b) :
              /\ fbs' = [fbs EXCEPT ![o] = r.fb]
              /\ unimportable' = IF r.tagged THEN unimportable \cup {b} ELSE unimportable
              /\ failed' = IF r.fb.id = 0 THEN failed \cup {b} ELSE failed
              /\ trace' = r.log
              /\ op' = Op("CDRMFB", o, FALSE, r.fb.id # 0, NoState)
    /\ UNCHANGED <<kernel, consumer, listener, sessionActive, ready, drmProps, crtcs,
                   planes, connectors, order, idleCallbacks, pageFlips, crashed, resources, modeCalc>>

\* fb->drop(), called on a live object
FBDropCall ==
    /\ ~crashed
    /\ \E o \in FBObjs :
         /\ fbs[o].life = "live"
         /\ \E r \in FBDrop(fbs[o]) :
              /\ fbs' = [fbs EXCEPT ![o] = r.fb]
              /\ trace' = r.log
              /\ op' = Op("drop", o, FALSE, TRUE, NoState)
    /\ UNCHANGED <<kernel, consumer, listener, sessionActive, ready, drmProps, crtcs,
                   planes, connectors, order, idleCallbacks, pageFlips, unimportable, failed,
                   crashed, resources, modeCalc>>

\* ~CDRMFB: the last holder lets go
FBDestroy ==
    /\ ~crashed
    /\ \E o \in FBObjs :
         /\ fbs[o].life = "live"
         /\ \E r \in FBDrop(fbs[o]) :
              /\ fbs' = [fbs EXCEPT ![o] = [r.fb EXCEPT !.life = "gone"]]
              /\ trace' = r.log
              /\ op' = Op("~CDRMFB", o, FALSE, TRUE, NoState)
    /\ UNCHANGED <<kernel, consumer, listener, sessionActive, ready, drmProps, crtcs,
                   planes, connectors, order, idleCallbacks, pageFlips, unimportable, failed,
                   crashed, resources, modeCalc>>

----------------------------------------------------------------------------
(* CDRMBackend::initResources: the plane loop, one plane per step.         *)

\* the IN_FORMATS blobs a plane may carry: no such property, a tiled modifier
\* for the listed format, and a blob that also names a format not listed
InFormatsBlobs ==
    { [in_formats |-> 0, blob |-> <<>>],
      [in_formats |-> 1, blob |-> <<[fmt |-> "XR24", mod |-> "TILED"]>>],
      [in_formats |-> 1, blob |-> <<[fmt |-> "AR24", mod |-> "TILED"],
                                    [fmt |-> "XR24", mod |-> "LINEAR"]>>] }

\* the planes a kernel may list at position i, all with the blob in_formats
KernelPlaneAt(i, in_formats) ==
    [id : {i}, type : {"PRIMARY", "CURSOR", "OVERLAY"},
     possible_crtcs : SUBSET (DOMAIN KernelCrtcIds),
     formats : {<<"XR24">>}, in_formats : {in_formats.in_formats},
     blob : {in_formats.blob}]

\* the plane lists of up to MaxPlanes planes
KernelPlaneLists(in_formats) ==
    UNION { { l \in [1..n -> UNION {KernelPlaneAt(i, in_formats) : i \in 1..n}] :
                \A i \in 1..n : l[i].id = i } : n \in 1..MaxPlanes }

\* the state when the CRTC loop of initResources is done and the plane loop
\* is about to start
InitResources ==
    /\ \E m \in BOOLEAN :
          InitBackend(<<>>, {}, [supportsAsyncCommit |-> FALSE,
                                 supportsAddFb2Modifiers |-> m])
    /\ \E blob \in InFormatsBlobs : \E kplanes \in KernelPlaneLists(blob) :
          resources = [planes |-> kplanes, next |-> 1, failed |-> FALSE,
                       formats |-> <<>>]
    /\ crtcs = NoPlaneCrtcs
    /\ listener = "none"

\* one turn of the plane loop: drmModeGetPlane and SDRMPlane::init; a failure
\* of either clears crtcs and planes and ends initResources
InitPlane ==
    /\ ~crashed
    /\ ~resources.failed
    /\ resources.next <= Len(resources.planes)
    /\ LET plane == resources.planes[resources.next] IN
       \/ /\ resources' = [resources EXCEPT !.failed = TRUE, !.formats = <<>>]
          /\ crtcs' = <<>>
          /\ op' = Op("initResources", plane.id, FALSE, FALSE, NoState)
       \/ /\ resources' =
                [resources EXCEPT
                    !.next = @ + 1,
                    !.formats = Append(@, PlaneFormats(plane,
                                              drmProps.supportsAddFb2Modifiers))]
          /\ crtcs' = FirstFit(crtcs, plane, 1)
          /\ op' = Op("initResources", plane.id, FALSE, TRUE, NoState)
    /\ trace' = <<>>
    /\ UNCHANGED <<kernel, consumer, listener, sessionActive, ready, drmProps, planes,
                   connectors, order, idleCallbacks, pageFlips, unimportable, fbs,
                   failed, crashed, modeCalc>>

----------------------------------------------------------------------------
(* The mode arithmetic on its own: a kernel mode listed by connect, a mode   *)
(* applied by a commit.                                                    *)

\* clock (kHz), htotal and vtotal of modes of real monitors
RealTimings ==
    { <<148500, 2200, 1125>>, <<65000, 1344, 806>>, <<25175, 800, 525>>,
      <<481926, 1708, 979>> }

\* the same of the small modes
SmallTimings == (1..MaxTiming) \X (1..MaxTiming) \X (1..MaxTiming)

\* the kernel modes the arithmetic is run on
KernelModes ==
    { ModeInfo(tm[1], tm[2], tm[2], tm[3], tm[3], vscan, flags) :
        tm \in RealTimings \cup SmallTimings, vscan \in {0, 1, 2},
        flags \in SUBSET {"INTERLACE", "DBLSCAN"} }

\* a mode with a raw kernel mode enters
InitRefresh ==
    /\ InitConstructed(<<>>, {}, [supportsAsyncCommit |-> FALSE,
                                  supportsAddFb2Modifiers |-> TRUE])
    /\ resources = ResourcesDone(KernelPlanes, TRUE)
    /\ crtcs = InitCrtcs
    /\ listener = "none"
    /\ \E m \in KernelModes :
          modeCalc = [NoModeCalc EXCEPT !.stage = "drmMode", !.modeInfo = m]

\* the frame of the steps of the arithmetic
ModeCalcStep(name) ==
    /\ ~crashed
    /\ op' = Op(name, 0, FALSE, TRUE, NoState)
    /\ trace' = <<>>
    /\ UNCHANGED <<kernel, consumer, listener, sessionActive, ready, drmProps, crtcs,
                   planes, connectors, order, idleCallbacks, pageFlips, unimportable,
                   fbs, resources, failed, crashed>>

\* the body of connect's mode loop for one kernel mode: interlaced modes are
\* skipped, the others become an SOutputMode of output->modes
ConnectMode ==
    /\ modeCalc.stage = "drmMode"
    /\ modeCalc' =
          IF "INTERLACE" \in modeCalc.modeInfo.flags
          THEN [modeCalc EXCEPT !.stage = "skipped"]
          ELSE [modeCalc EXCEPT
                   !.stage = "aqMode",
                   !.pixelSize = <<modeCalc.modeInfo.hdisplay, modeCalc.modeInfo.vdisplay>>,
                   !.refreshRate = CalculateRefresh(modeCalc.modeInfo)]
    /\ ModeCalcStep("connect")

\* applyCommit with MODE committed: refresh = calculateRefresh(data.modeInfo)
ApplyRefresh ==
    /\ modeCalc.stage \in {"drmMode", "calculated"}
    /\ modeCalc' = [modeCalc EXCEPT !.stage = "applied",
                                    !.refresh = CalculateRefresh(modeCalc.modeInfo)]
    /\ ModeCalcStep("applyCommit")

\* the sizes (width, height) of the modes a compositor asks for without a
\* raw kernel mode
CustomSizes == { <<1920, 1080>>, <<1280, 720>>, <<640, 480>>, <<1024, 1024>> }

\* what di_cvt_compute may answer for a mode of v_lines lines: the porches
\* and sync widths, the lines, the pixel clock in kHz and the frame rate
CvtTimings(v_lines) ==
    [h_front_porch : {8, 88}, h_sync : {32, 44}, h_back_porch : {40, 148},
     v_lines_rnd : {v_lines}, v_front_porch : {3}, v_sync : {5},
     v_back_porch : {6, 36}, clock : {74250, 148500}, vrefresh : {60}]

\* a commit with a custom mode that has no raw kernel mode has reached
\* data.calculateMode
InitCalcMode ==
    /\ InitConstructed(<<>>, {}, [supportsAsyncCommit |-> FALSE,
                                  supportsAddFb2Modifiers |-> TRUE])
    /\ resources = ResourcesDone(KernelPlanes, TRUE)
    /\ crtcs = InitCrtcs
    /\ listener = "none"
    /\ \E size \in CustomSizes, rate \in {0, 60000} :
          \E timing \in CvtTimings(size[2]) :
             modeCalc = [NoModeCalc EXCEPT !.stage = "custom", !.pixelSize = size,
                                           !.refreshRate = rate, !.timing = timing]

\* data.calculateMode(connector)
CalculateModeCall ==
    /\ modeCalc.stage = "custom"
    /\ modeCalc' = [modeCalc EXCEPT
                       !.stage = "calculated",
                       !.modeInfo = CalculateMode(modeCalc.pixelSize, modeCalc.timing)]
    /\ ModeCalcStep("calculateMode")

Next ==
    \/ Hotplug
    \/ Commit
    \/ Test
    \/ Schedule
    \/ Dispatch
    \/ OnReady
    \/ Deactivate
    \/ Activate

Spec == Init /\ [][Next]_vars

\* one connector, a compositor at the edges of the preconditions
InitEdge == InitWith(<<1>>, EdgeStates)

SpecEdge == InitEdge /\ [][Next]_vars

\* hot-plug and VT switches alone, on a kernel with two connectors
InitVT == InitWith(<<1, 2>>, {})

NextVT ==
    \/ Hotplug
    \/ Deactivate
    \/ Activate

SpecVT == InitVT /\ [][NextVT]_vars

\* the output states of a compositor that page-flips a linear and a tiled
\* buffer
ImportStates ==
    { OutputState({"BUFFER"}, TRUE, "blob", "none", b) : b \in {1, 2} }

\* one connector, on a driver without add-FB-with-modifiers
InitImport ==
    /\ InitWithProps(<<1>>, ImportStates,
                     [supportsAsyncCommit |-> FALSE, supportsAddFb2Modifiers |-> FALSE])
    /\ listener = "none"

SpecImport == InitImport /\ [][Next]_vars

\* the framebuffer class alone, on a driver with and without
\* add-FB-with-modifiers
InitFB ==
    /\ \E m \in BOOLEAN :
          InitWithProps(<<>>, {}, [supportsAsyncCommit |-> FALSE,
                                   supportsAddFb2Modifiers |-> m])
    /\ listener = "none"

\* one connector, a compositor whose frame listener asks for the next frame
\* with scheduleFrame
InitFrame ==
    /\ InitWithProps(<<1>>, FlipStates,
                     [supportsAsyncCommit |-> FALSE, supportsAddFb2Modifiers |-> TRUE])
    /\ listener = "scheduleFrame"

SpecFrame == InitFrame /\ [][Next]_vars

NextFB ==
    \/ FBConstruct
    \/ FBDropCall
    \/ FBDestroy

SpecFB == InitFB /\ [][NextFB]_vars

NextResources == InitPlane

SpecResources == InitResources /\ [][NextResources]_vars

NextRefresh ==
    \/ ConnectMode
    \/ ApplyRefresh

SpecRefresh == InitRefresh /\ [][NextRefresh]_vars

NextCalcMode ==
    \/ CalculateModeCall
    \/ ApplyRefresh

SpecCalcMode == InitCalcMode /\ [][NextCalcMode]_vars

\* the mode lists of monitors with two modes, the first or the second of
\* them interlaced or none, and of a monitor that lists no mode
ModeLists ==
    { <<KMode(1, FALSE), KMode(3, FALSE)>>,
      <<KMode(2, TRUE), KMode(3, FALSE)>>,
      <<KMode(1, FALSE), KMode(2, TRUE)>>,
      <<>> }

\* the output states of a compositor that page-flips and sets either
\* progressive mode
ModeStates ==
    { OutputState({"BUFFER"}, TRUE, "blob", "none", 1),
      OutputState({"ENABLED", "MODE", "BUFFER"}, TRUE, "blob", "none", 1),
      [OutputState({"ENABLED", "MODE", "BUFFER"}, TRUE, "blob", "none", 1)
          EXCEPT !.modeId = 3] }

\* one connector, monitors of every mode list, a CRTC that drives no mode,
\* the first or the third
InitModes ==
    /\ InitKernel(<<1>>, ModeStates,
                  [supportsAsyncCommit |-> FALSE, supportsAddFb2Modifiers |-> TRUE],
                  ModeLists, {0, 1, 3})
    /\ modeCalc = NoModeCalc
    /\ resources = ResourcesDone(KernelPlanes, TRUE)
    /\ crtcs = InitCrtcs
    /\ listener = "none"
    /\ AttemptScan

NextModes ==
    \/ Hotplug
    \/ Commit
    \/ Dispatch

SpecModes == InitModes /\ [][NextModes]_vars

----------------------------------------------------------------------------
(* Properties *)

\* the entries of the last handler's log
Entries == {trace[i] : i \in DOMAIN trace}

\* what an import makes the log show: the constructor and its kernel calls
ImportCalls ==
    {"CDRMFB::create", "drmPrimeFDToHandle", "drmModeAddFB2",
     "drmModeAddFB2WithModifiers"}

\* a log without framebuffer import and without engine call
NoImportNoEngine(tr) ==
    \A i \in DOMAIN tr : tr[i].what \notin ImportCalls \cup {"impl->commit", "impl->reset"}

\* the last handler was commit() or test() on an output
WasCommit == op.name = "commit"

\* C1: after any sequence of scans, hot-plugs, commits, completions and VT
\* restores, a connector has an Output if and only if its status is CONNECTED.
C1_OutputIffConnected ==
    \A c \in ConnIds : connectors[c].output <=> connectors[c].status = "CONNECTED"

\* C1 witness: a scan has just disconnected a connector that was connected
C1_Witness ==
    /\ op.name = "scan"
    /\ \E e \in Entries : e.what = "events.destroy" /\ ~connectors[e.conn].output
                          /\ connectors[e.conn].status = "DISCONNECTED"

\* C2: at most one page-flip is submitted to the kernel and not yet completed,
\* per connector, whatever test, blocking and non-blocking commits, restores
\* and completions happen.
C2_OneFlipInFlight ==
    \A c \in ConnIds : Len(pageFlips[c]) <= 1

\* C2 witness: a blocking commit went through while a flip was in flight
C2_Witness ==
    /\ WasCommit /\ op.ret /\ ~op.test /\ Blocking(op.st)
    /\ Len(pageFlips[op.conn]) = 1
    /\ connectors[op.conn].isPageFlipPending

\* C3: a non-blocking commit on an output whose connector has a page-flip
\* pending returns failure, imports no framebuffer and does not call the
\* engine (so it adds no flip).
C3_PendingGateRejects ==
    [][ ( /\ op'.name = "commit" /\ ~op'.test /\ ~Blocking(op'.st)
          /\ connectors[op'.conn].isPageFlipPending )
        => ( /\ ~op'.ret /\ ~crashed'
             /\ NoImportNoEngine(trace')
             /\ pageFlips' = pageFlips /\ planes' = planes ) ]_vars

\* C3 witness: a page-flip commit that passes every other check was refused
\* because a flip is pending
C3_Witness ==
    /\ WasCommit /\ ~op.test /\ ~Blocking(op.st) /\ ~op.ret
    /\ connectors[op.conn].isPageFlipPending
    /\ CommitRefusal(connectors[op.conn], op.st) = ""
    /\ op.st.buffer # 0

\* C4: a failed commit (precondition, import or engine) and every test commit
\* leave the front and back framebuffer of every plane as they were.
C4_FailedOrTestKeepsFBs ==
    [][ (op'.name = "commit" /\ (~op'.ret \/ op'.test)) => planes' = planes ]_vars

\* C4 witness: the engine refused a commit that carried an imported
\* framebuffer, on a CRTC whose primary plane shows a framebuffer
C4_Witness ==
    /\ WasCommit /\ ~op.ret /\ ~op.test
    /\ \E e \in Entries : e.what = "impl->commit" /\ ~e.ok /\ e.fb # 0
    /\ connectors[op.conn].crtc # 0
    /\ crtcs[connectors[op.conn].crtc].primary # 0
    /\ planes[crtcs[connectors[op.conn].crtc].primary].front # NoFB

\* the framebuffer the engine was handed in the last handler
SubmittedFB(tr) ==
    LET i == CHOOSE j \in DOMAIN tr : tr[j].what = "impl->commit"
    IN  [id |-> tr[i].fb, buffer |-> tr[i].buf]

\* C5: a successful non-test commit rotates each plane the CRTC has exactly
\* once: the old front becomes the back, the submitted framebuffer (of the
\* committed buffer) the front; for the cursor plane the submitted cursor
\* framebuffer is none.  No other plane changes.
C5_SuccessfulCommitRotates ==
    [][ (op'.name = "commit" /\ op'.ret /\ ~op'.test)
        => LET crtc == crtcs[connectors[op'.conn].crtc]
               fb == SubmittedFB(trace')
           IN  /\ fb.buffer = op'.st.buffer
               /\ (fb.id = 0) = (op'.st.buffer = 0)
               /\ crtc.primary # 0 =>
                    planes'[crtc.primary] =
                        [front |-> fb, back |-> planes[crtc.primary].front]
               /\ crtc.cursor # 0 =>
                    planes'[crtc.cursor] =
                        [front |-> NoFB, back |-> planes[crtc.cursor].front]
               /\ \A p \in PlaneIds \ {crtc.primary, crtc.cursor} :
                    planes'[p] = planes[p] ]_vars

\* C5 witness: a commit succeeded on a plane that already showed a
\* framebuffer, which is now the back
C5_Witness ==
    /\ WasCommit /\ op.ret /\ ~op.test
    /\ crtcs[connectors[op.conn].crtc].primary # 0
    /\ planes[crtcs[connectors[op.conn].crtc].primary].back # NoFB

\* C6: commit or test with the session inactive returns failure and makes no
\* kernel call; connector, plane and kernel state stay as they were (the
\* output's mode fields are what the compositor set before the call).
C6_InactiveSessionFailsFast ==
    [][ (op'.name = "commit" /\ ~sessionActive)
        => ( /\ ~op'.ret /\ ~crashed' /\ trace' = <<>>
             /\ planes' = planes /\ pageFlips' = pageFlips
             /\ unimportable' = unimportable /\ idleCallbacks' = idleCallbacks
             /\ connectors' = [connectors EXCEPT
                                  ![op'.conn].mode = op'.st.mode,
                                  ![op'.conn].customMode = op'.st.customMode,
                                  ![op'.conn].modeInfo =
                                      IF op'.st.mode = "blob"
                                      THEN KMode(op'.st.modeId, FALSE)
                                      ELSE NoKMode] ) ]_vars

\* C6 witness: a commit that carries a buffer failed with the session inactive
C6_Witness ==
    /\ WasCommit /\ ~sessionActive /\ ~op.ret /\ op.st.buffer # 0
    /\ connectors[op.conn].crtc # 0

\* C7: a commit with ENABLED committed, enabled = true and neither a mode nor
\* a custom mode is rejected before any framebuffer import or engine call.
C7_EnableWithoutModeRejected ==
    ( /\ WasCommit /\ "ENABLED" \in op.st.committed /\ op.st.enabled
      /\ op.st.mode = "none" /\ op.st.customMode = "none" )
    => ( /\ ~op.ret /\ ~crashed
         /\ NoImportNoEngine(trace)
         /\ \A e \in Entries : e.what # "ub" )

\* C8: a page-flip completion dispatched after its connector was
\* disconnected, whatever scans came in between, emits no present and no
\* frame event.
C8_StaleCompletionDropped ==
    \A e \in Entries :
        e.what \in {"events.present", "events.frame"} => ~e.stale

\* C9: the flip state returns to IDLE on disconnect: once a scan (also the
\* one a restore runs) has disconnected a connector, its is_page_flip_pending
\* is false, whether or not a completion is ever delivered.
C9_IdleOnDisconnect ==
    \A e \in Entries :
        ( /\ op.name \in {"scan", "restoreAfterVT"} /\ ~crashed
          /\ e.what = "events.destroy" /\ ~connectors[e.conn].output )
        => ~connectors[e.conn].isPageFlipPending

\* C10: a restore scans first, then every connector that is reset gets its
\* restore commit, after its reset, blocking, modesetting and non-test,
\* whatever the engine answered for the connectors before it; and every
\* connector with a CRTC is reset.
C10_RestoreResetsThenCommits ==
    op.name = "restoreAfterVT" =>
        /\ \A i, j \in DOMAIN trace :
              ( /\ trace[i].what \in {"getResources", "events.destroy", "events.newOutput"}
                /\ trace[j].what \in {"impl->reset", "impl->commit"} ) => i < j
        /\ \A i \in DOMAIN trace :
              trace[i].what = "impl->reset" =>
                 \E j \in DOMAIN trace :
                    /\ i < j /\ trace[j].what = "impl->commit"
                    /\ trace[j].conn = trace[i].conn
                    /\ trace[j].blocking /\ trace[j].modeset /\ ~trace[j].test
        /\ \A j \in DOMAIN trace :
              trace[j].what = "impl->commit" =>
                 \E i \in DOMAIN trace :
                    i < j /\ trace[i].what = "impl->reset" /\ trace[i].conn = trace[j].conn
        /\ ~crashed =>
              \A c \in ConnIds :
                 (connectors[c].created /\ connectors[c].crtc # 0)
                 => \E i \in DOMAIN trace :
                       trace[i].what = "impl->reset" /\ trace[i].conn = c

\* the kernel calls of a framebuffer import
ImportKernelCalls ==
    {"drmPrimeFDToHandle", "drmModeAddFB2", "drmModeAddFB2WithModifiers"}

\* C11: for every framebuffer object at every point of its life (after
\* construction, failed or not, and after any number of drop() calls):
\* id != 0 if and only if dropped = false.
C11_IdIffNotDropped ==
    \A o \in FBObjs :
        fbs[o].life = "live" => ((fbs[o].id # 0) <=> ~fbs[o].dropped)

\* C12: the kernel id of a framebuffer object is released at most once over
\* any sequence of drop() calls and the destruction (one drmModeCloseFB call,
\* drmModeRmFB only after that call failed), and no release call is made for
\* an object whose creation failed (id 0).
C12_ReleasedAtMostOnce ==
    \A o \in FBObjs :
        /\ fbs[o].closes <= 1
        /\ fbs[o].released <= fbs[o].closes
        /\ fbs[o].id = 0 => fbs[o].closes = 0
        /\ (op.name \in {"drop", "~CDRMFB"} /\ op.conn = o /\ fbs[o].id = 0) => trace = <<>>

\* C12 witness: a framebuffer with a kernel id was dropped explicitly and
\* then destroyed; the destructor made no call
C12_Witness ==
    /\ op.name = "~CDRMFB" /\ trace = <<>>
    /\ fbs[op.conn].life = "gone" /\ fbs[op.conn].id # 0
    /\ fbs[op.conn].closes = 1 /\ fbs[op.conn].released = 1

\* C13: every failed framebuffer import (no dmabuf, PRIME failure, AddFB
\* rejection) leaves the source buffer tagged unimportable.
C13_FailedImportTags ==
    (op.name = "CDRMFB" /\ ~op.ret) => fbs[op.conn].buffer \in unimportable

\* C14: once a buffer has failed import, every later import attempt for it
\* fails without any kernel call.
C14_FailedBufferShortCircuits ==
    [][ (op'.name = "CDRMFB" /\ fbs'[op'.conn].buffer \in failed)
        => ( /\ ~op'.ret
             /\ \A i \in DOMAIN trace' : trace'[i].what \notin ImportKernelCalls ) ]_vars

\* the buffer b has an explicit modifier that is not LINEAR
ExplicitModifier(b) == BufferModifier(b) \notin {"LINEAR", "INVALID"}

\* C15: importing a buffer whose modifier is neither LINEAR nor INVALID on a
\* driver without add-FB-with-modifiers is rejected: no AddFB call is made,
\* no framebuffer is produced (no plane ever shows the buffer), and the
\* commit that requested it fails without reaching the engine.
C15_ExplicitModifierRejected ==
    /\ ~drmProps.supportsAddFb2Modifiers =>
          \A p \in PlaneIds :
             /\ planes[p].front.id # 0 => ~ExplicitModifier(planes[p].front.buffer)
             /\ planes[p].back.id # 0 => ~ExplicitModifier(planes[p].back.buffer)
    /\ ( /\ WasCommit /\ ~crashed
         /\ ~drmProps.supportsAddFb2Modifiers
         /\ op.st.buffer # 0 /\ ExplicitModifier(op.st.buffer)
         /\ \E e \in Entries : e.what = "CDRMFB::create" /\ e.buf = op.st.buffer )
       => ( /\ ~op.ret
            /\ \A e \in Entries :
                  e.what \notin {"drmModeAddFB2", "drmModeAddFB2WithModifiers",
                                 "impl->commit"} )

\* C15 witness: the import of a tiled buffer got through the PRIME conversion
\* and was refused by submitBuffer
C15_Witness ==
    /\ WasCommit /\ ~op.ret /\ ~drmProps.supportsAddFb2Modifiers
    /\ ExplicitModifier(op.st.buffer)
    /\ \E e \in Entries : e.what = "drmPrimeFDToHandle" /\ e.ok /\ e.buf = op.st.buffer
    /\ op.st.buffer \in unimportable

\* the framebuffer of plane p that a commit of buffer b finds: the back one
\* first, then the front one, NoFB when neither is of b
FoundFB(pl, p, b) ==
    IF pl[p].back.id # 0 /\ pl[p].back.buffer = b THEN pl[p].back
    ELSE IF pl[p].front.id # 0 /\ pl[p].front.buffer = b THEN pl[p].front
    ELSE NoFB

\* C16: when the buffer committed (or tested) is the buffer of the primary
\* plane's back or front framebuffer, the commit creates no framebuffer and
\* allocates no kernel id: what the engine is handed is that framebuffer.
C16_MatchingBufferReusesFB ==
    [][ ( /\ op'.name = "commit" /\ op'.st.buffer # 0
          /\ connectors[op'.conn].crtc # 0
          /\ crtcs[connectors[op'.conn].crtc].primary # 0
          /\ FoundFB(planes, crtcs[connectors[op'.conn].crtc].primary,
                     op'.st.buffer) # NoFB )
        => ( /\ \A i \in DOMAIN trace' :
                  /\ trace'[i].what \notin ImportCalls
                  /\ trace'[i].what = "impl->commit" =>
                        trace'[i].fb = FoundFB(planes,
                                               crtcs[connectors[op'.conn].crtc].primary,
                                               op'.st.buffer).id
             /\ LiveFBs(planes') \subseteq LiveFBs(planes) ) ]_vars

\* C16 witness: a commit of a buffer went through to the engine with a
\* framebuffer and without an import
C16_Witness ==
    /\ WasCommit /\ op.ret /\ ~op.test /\ op.st.buffer # 0
    /\ \A e \in Entries : e.what \notin ImportCalls
    /\ \E e \in Entries : e.what = "impl->commit" /\ e.fb # 0 /\ e.buf = op.st.buffer

\* the last handler scanned the connectors
Scanned(o) == o.name \in {"scan", "restoreAfterVT"}

\* what a scan was answered by the kernel: the resources, and per connector
\* whether it could be read and its connection status
Observed(tr) ==
    SelectSeq(tr, LAMBDA e : e.what \in {"getResources", "drmModeGetConnector"})

\* the scan could not initialise connector c
InitFailed(tr, c) ==
    \E i \in DOMAIN tr : tr[i].what = "SDRMConnector::init" /\ tr[i].conn = c /\ ~tr[i].ok

\* between two scans no handler touches the connector objects' existence,
\* status, output or CRTC, so consecutive scans compare as scan and rescan
BetweenScansUntouched ==
    ~Scanned(op')
    => ( /\ order' = order
         /\ \A c \in ConnIds :
               /\ connectors'[c].created = connectors[c].created
               /\ connectors'[c].status = connectors[c].status
               /\ connectors'[c].output = connectors[c].output
               /\ connectors'[c].crtc = connectors[c].crtc )

\* the rescan created no connector object, created and destroyed no output
\* and emitted no newOutput or destroy event
RescanChangedNothing ==
    /\ order' = order /\ connectors' = connectors
    /\ idleCallbacks' = idleCallbacks
    /\ \A i \in DOMAIN trace' :
          trace'[i].what \notin {"events.newOutput", "events.destroy"}

\* C17 as stated: a rescan that observes the same kernel connector set and
\* connection statuses as the previous scan creates no connector object,
\* creates and destroys no output and emits no newOutput or destroy event.
\* Fails: a connector whose SDRMConnector::init failed in the previous scan
\* was popped, and the rescan creates it anew, connects it and announces it.
C17_RescanIdempotentAsStated ==
    [][ /\ ( Scanned(op) /\ Scanned(op') /\ Observed(trace') = Observed(trace) )
           => RescanChangedNothing
        /\ BetweenScansUntouched ]_vars

\* C17 amended: a rescan that observes the same kernel connector set and
\* connection statuses as the previous scan, and in which every connector
\* that failed to initialise in the previous scan fails again, creates no
\* connector object, creates and destroys no output and emits no newOutput
\* or destroy event.
C17_RescanIdempotent ==
    [][ /\ ( /\ Scanned(op) /\ Scanned(op')
             /\ Observed(trace') = Observed(trace)
             /\ \A c \in ConnIds : InitFailed(trace, c) => InitFailed(trace', c) )
           => RescanChangedNothing
        /\ BetweenScansUntouched ]_vars

\* C17 witness: with the backend ready, a scan found a connector connected
\* that was connected already: no output was announced
C17_Witness ==
    /\ op.name = "scan" /\ ready
    /\ \E e \in Entries :
          /\ e.what = "drmModeGetConnector" /\ e.connection = "CONNECTED"
          /\ connectors[e.conn].output
    /\ \A e \in Entries : e.what \notin {"events.newOutput", "SDRMConnector::init"}

\* C18: every output gets exactly one newOutput event: at connect time when
\* the backend is ready, else at onReady; none is announced twice, none alive
\* at or after onReady is left unannounced.
C18_AnnouncedExactlyOnce ==
    \A c \in ConnIds :
        /\ connectors[c].announced <= 1
        /\ connectors[c].output =>
              connectors[c].announced = (IF ready THEN 1 ELSE 0)
        /\ (\E e \in Entries : e.what = "events.newOutput" /\ e.conn = c) =>
              \/ op.name = "onReady"
              \/ /\ Scanned(op) /\ ready
                 /\ \E e \in Entries : /\ e.what = "drmModeGetConnector" /\ e.conn = c
                                       /\ e.connection = "CONNECTED"

\* C18 witness: onReady announced an output that was connected before the
\* backend was ready
C18_Witness ==
    /\ op.name = "onReady"
    /\ \E e \in Entries :
          /\ e.what = "events.newOutput"
          /\ connectors[e.conn].output /\ connectors[e.conn].announced = 1

\* how many entries of the log tr are of kind what and carry ok
Count(tr, what, ok) ==
    Cardinality({i \in DOMAIN tr : tr[i].what = what /\ tr[i].ok = ok})

\* C19: scheduleFrame does nothing while a page-flip is pending and otherwise
\* enqueues one idle callback; a dispatch fires every callback that was
\* queued, once, as one frame event, and loses none of those enqueued while
\* it runs: each of them is fired or still queued for the next turn.
C19_IdleCallbacksFireOnce ==
    [][ /\ op'.name = "scheduleFrame" =>
              idleCallbacks' =
                 IF connectors[op'.conn].isPageFlipPending THEN idleCallbacks
                 ELSE Append(idleCallbacks,
                             [conn |-> op'.conn, alive |-> TRUE, late |-> FALSE,
                              at |-> {}])
        /\ op'.name = "dispatchEvents" =>
              /\ ~crashed'
              /\ \A i \in DOMAIN trace' : trace'[i].what # "ub"
              /\ Count(trace', "idle:events.frame", TRUE) >= Len(idleCallbacks)
              /\ Len(idleCallbacks) + Count(trace', "scheduleFrame", TRUE)
                    = Count(trace', "idle:events.frame", TRUE) + Len(idleCallbacks') ]_vars

\* the positions in the log tr of the events of kind what on connector c
EventsAt(tr, what, c) == {i \in DOMAIN tr : tr[i].what = what /\ tr[i].conn = c}

\* C20: for each page-flip completion dispatched on a connected connector
\* with a CRTC the handler clears is_page_flip_pending and emits exactly one
\* present event, presented = true iff the session is active; a frame event
\* follows it iff the session is active.
C20_CompletionPresents ==
    [][ op'.name = "dispatchEvents" =>
          \A c \in ConnIds :
             ( /\ Len(pageFlips'[c]) < Len(pageFlips[c])
               /\ connectors[c].status = "CONNECTED" /\ connectors[c].crtc # 0 )
             => ( /\ ~connectors'[c].isPageFlipPending
                  /\ Cardinality(EventsAt(trace', "events.present", c))
                        = Len(pageFlips[c]) - Len(pageFlips'[c])
                  /\ \A i \in EventsAt(trace', "events.present", c) :
                        /\ trace'[i].presented = sessionActive
                        /\ sessionActive =>
                              /\ i + 1 \in DOMAIN trace'
                              /\ trace'[i + 1].what = "events.frame"
                              /\ trace'[i + 1].conn = c
                  /\ Cardinality(EventsAt(trace', "events.frame", c))
                        = (IF sessionActive THEN Len(pageFlips[c]) - Len(pageFlips'[c])
                           ELSE 0) ) ]_vars

\* C20 witness: a completion was dispatched with the session inactive:
\* a present event with presented = false and no frame event
C20_Witness ==
    /\ op.name = "dispatchEvents" /\ ~sessionActive
    /\ \E e \in Entries :
          /\ e.what = "events.present" /\ ~e.presented
          /\ ~connectors[e.conn].isPageFlipPending
    /\ \A e \in Entries : e.what # "events.frame"

\* the kernel planes initResources has initialised so far
PlanesInited == {resources.planes[i] : i \in 1..(resources.next - 1)}

\* the CRTC indexes whose slot of the plane's type holds the plane
SlotsOf(plane) ==
    {i \in DOMAIN KernelCrtcIds :
        \/ plane.type = "PRIMARY" /\ crtcs[KernelCrtcIds[i]].primary = plane.id
        \/ plane.type = "CURSOR" /\ crtcs[KernelCrtcIds[i]].cursor = plane.id}

\* the plane in the CRTC slot of index j for planes of this type (0: free)
SlotHolder(plane, j) ==
    IF plane.type = "PRIMARY" THEN crtcs[KernelCrtcIds[j]].primary
    ELSE crtcs[KernelCrtcIds[j]].cursor

\* C21: after resource enumeration every PRIMARY or CURSOR plane occupies at
\* most one CRTC slot of its type, no plane sits in a slot of another type (so
\* a CRTC has one primary and one cursor at most), and an assigned plane sits
\* on the lowest CRTC of its possible_crtcs whose slot was free when it was
\* initialised: every lower possible CRTC holds a plane listed before it.
C21_FirstFitAssignment ==
    ~resources.failed =>
       /\ \A k \in DOMAIN crtcs :
             /\ crtcs[k].primary # 0 =>
                   \E pl \in PlanesInited : pl.id = crtcs[k].primary /\ pl.type = "PRIMARY"
             /\ crtcs[k].cursor # 0 =>
                   \E pl \in PlanesInited : pl.id = crtcs[k].cursor /\ pl.type = "CURSOR"
       /\ \A pl \in PlanesInited :
             /\ Cardinality(SlotsOf(pl)) <= 1
             /\ \A i \in SlotsOf(pl) :
                   /\ i \in pl.possible_crtcs
                   /\ \A j \in pl.possible_crtcs :
                         j < i => SlotHolder(pl, j) \in 1..(pl.id - 1)

\* C21 witness: enumeration is done and a plane was pushed to its second
\* possible CRTC because the first one's slot was taken
C21_Witness ==
    /\ ~resources.failed
    /\ resources.next > Len(resources.planes)
    /\ \E pl \in PlanesInited : \E i \in SlotsOf(pl) :
          \E j \in pl.possible_crtcs : j < i

\* C26: every modifier in a cursor plane's format list is LINEAR, with or
\* without IN_FORMATS and add-FB-with-modifiers support.
C26_CursorOnlyLinear ==
    \A i \in DOMAIN resources.formats :
       resources.planes[i].type = "CURSOR" =>
          \A f \in DOMAIN resources.formats[i] :
             \A m \in DOMAIN resources.formats[i][f].modifiers :
                resources.formats[i][f].modifiers[m] = "LINEAR"

\* the refresh the mode arithmetic has stored for modeCalc.modeInfo
StoredRefresh ==
    IF modeCalc.stage = "aqMode" THEN modeCalc.refreshRate ELSE modeCalc.refresh

\* a refresh has been stored for a kernel mode
RefreshStored == modeCalc.stage \in {"aqMode", "applied"}

\* base * (interlace ? 2 : 1) / (dblscan ? 2 : 1) / max(1, vscan)
RefreshScaled(base, mode) ==
    ((base * (IF "INTERLACE" \in mode.flags THEN 2 ELSE 1))
        \div (IF "DBLSCAN" \in mode.flags THEN 2 ELSE 1))
        \div (IF mode.vscan > 1 THEN mode.vscan ELSE 1)

\* round((clock * 1e6 + vtotal / 2) / (htotal * vtotal)), the quotient being
\* the exact one: floor((2 clock 1e6 + vtotal + htotal vtotal) / (2 htotal vtotal))
RoundedQuotient(mode) ==
    LET k == mode.vtotal + (mode.htotal * mode.vtotal)
    IN  DivPow10((2 * mode.clock) + (k \div 1000000), k % 1000000, 6,
                 2 * mode.htotal * mode.vtotal).q

\* C22 as stated: the stored refresh equals
\* round((clock*1e6 + vtotal/2) / (htotal*vtotal)) * (interlace ? 2 : 1)
\* / (dblscan ? 2 : 1) / max(1, vscan).
C22_RefreshAsStated ==
    RefreshStored =>
       StoredRefresh = RefreshScaled(RoundedQuotient(modeCalc.modeInfo), modeCalc.modeInfo)

\* C22 amended: the stored refresh is the whole quotient q of clock*1e6 by
\* htotal, divided by vtotal and rounded to the nearest integer (halves up):
\* the base b with 2q - vtotal < 2 b vtotal <= 2q + vtotal; then doubled for
\* interlace, halved for double scan, divided by vscan when vscan > 1.
C22_RefreshAmended ==
    RefreshStored =>
       LET mode == modeCalc.modeInfo
           q == DivPow10(mode.clock, 0, 6, mode.htotal).q
       IN  \E b \in (q \div mode.vtotal)..((q \div mode.vtotal) + 1) :
              /\ (2 * q) - mode.vtotal < 2 * b * mode.vtotal
              /\ 2 * b * mode.vtotal <= (2 * q) + mode.vtotal
              /\ StoredRefresh = RefreshScaled(b, mode)

\* C22 witness: a refresh was stored for a mode where the division by htotal
\* has a remainder and the rounding goes up
C22_Witness ==
    /\ RefreshStored
    /\ DivPow10(modeCalc.modeInfo.clock, 0, 6, modeCalc.modeInfo.htotal).r # 0
    /\ StoredRefresh # 0
    /\ StoredRefresh
          # RefreshScaled(DivPow10(modeCalc.modeInfo.clock, 0, 6,
                                   modeCalc.modeInfo.htotal).q
                             \div modeCalc.modeInfo.vtotal, modeCalc.modeInfo)

\* C27: a mode synthesized for a requested mode without a raw mode blob has
\* hdisplay = the requested width and vdisplay = the requested height (the W
\* and H of its name), hdisplay <= hsync_start <= hsync_end <= htotal built
\* from the width plus the porches, and flags NHSYNC | PVSYNC.
C27_SynthesizedModeGeometry ==
    modeCalc.stage = "calculated" =>
       LET m == modeCalc.modeInfo
           tm == modeCalc.timing
       IN  /\ m.name = modeCalc.pixelSize
           /\ m.hdisplay = modeCalc.pixelSize[1]
           /\ m.vdisplay = modeCalc.pixelSize[2]
           /\ m.hsync_start = m.hdisplay + tm.h_front_porch
           /\ m.hsync_end = m.hsync_start + tm.h_sync
           /\ m.htotal = m.hsync_end + tm.h_back_porch
           /\ m.hdisplay <= m.hsync_start
           /\ m.hsync_start <= m.hsync_end
           /\ m.hsync_end <= m.htotal
           /\ m.flags = {"NHSYNC", "PVSYNC"}

\* the non-blocking engine calls of the log tr
NonBlockingCalls(tr) ==
    {i \in DOMAIN tr : tr[i].what = "impl->commit" /\ ~tr[i].blocking}

\* C24 as stated: neither commit() nor test() calls the engine with a
\* non-blocking request while is_page_flip_pending is true on the connector.
C24_GateCoversTest ==
    [][ op'.name = "commit" =>
          \A i \in NonBlockingCalls(trace') :
             ~connectors[trace'[i].conn].isPageFlipPending ]_vars

\* C24 amended: commit() never calls the engine with a non-blocking request
\* while is_page_flip_pending is true on the connector; test() is not held
\* back by a pending page-flip: a non-blocking test that passes the other
\* preconditions goes on to the framebuffer import and the engine.
C24_GateCoversCommit ==
    [][ op'.name = "commit" =>
          /\ \A i \in NonBlockingCalls(trace') :
                ~trace'[i].test => ~connectors[trace'[i].conn].isPageFlipPending
          /\ ( /\ op'.test /\ ~Blocking(op'.st) /\ ~crashed'
               /\ connectors[op'.conn].isPageFlipPending
               /\ CommitRefusal(connectors[op'.conn], op'.st) = "" )
             => \E i \in DOMAIN trace' :
                   trace'[i].what \in {"impl->commit", "CDRMFB::create"} ]_vars

\* C24 witness: with a page-flip pending, test() called the engine with a
\* non-blocking request
C24_Witness ==
    /\ WasCommit /\ op.test
    /\ connectors[op.conn].isPageFlipPending
    /\ \E i \in NonBlockingCalls(trace) : trace[i].test /\ trace[i].conn = op.conn

\* the null or dangling pointers the last handler read through
PointersRead == {e.ptr : e \in {x \in Entries : x.what = "ub"}}

\* C28: VT restore never reads the output of a connector that has none.
C28_RestoreSkipsAbsentOutput ==
    op.name = "restoreAfterVT" => "output" \notin PointersRead

\* C29: no idle callback fires for an output that has been destroyed: a
\* dispatch does not run a callback on the destroyed output.
C29_NoCallbackAfterDestroy ==
    op.name = "dispatchEvents" => "this" \notin PointersRead

\* C30: a commit or test that passes the enable/mode precondition (it does
\* not enable the output with neither a mode nor a custom mode) never reads
\* through an absent mode.
C30_NoReadOfAbsentMode ==
    ( /\ WasCommit
      /\ ~( /\ "ENABLED" \in op.st.committed /\ op.st.enabled
            /\ op.st.mode = "none" /\ op.st.customMode = "none" ) )
    => "MODE" \notin PointersRead

----------------------------------------------------------------------------
(* Modes of an output and the refresh a present event reports *)

\* is the kernel mode m interlaced, by its flags?
Interlaced(m) == "INTERLACE" \in KModeInfo(m.id).flags

\* C23: no output lists an interlaced mode or has one as the mode of its
\* state, whatever connects, disconnects and reconnects came before
C23_NoInterlacedMode ==
    \A c \in ConnIds :
       connectors[c].output =>
          /\ \A i \in DOMAIN connectors[c].modes : ~Interlaced(connectors[c].modes[i])
          /\ ~Interlaced(connectors[c].modeInfo)

\* a scan has connected a monitor that lists the interlaced mode 2 before
\* mode 3 on a CRTC that drives mode 1: the output lists mode 3 alone and
\* has it as the mode of its state
C23_Witness ==
    /\ op.name = "scan"
    /\ \E c \in ConnIds :
          /\ connectors[c].output
          /\ connectors[c].modes = <<KMode(3, FALSE)>>
          /\ connectors[c].modeInfo = KMode(3, FALSE)

\* the frame interval in ns of a mode
FrameInterval(mode) == DivPow10(1000000, 0, 6, CalculateRefresh(mode)).q

\* C25: every present event reports the frame interval of the mode the
\* connector is driving, be it the one found at connect or the one a
\* successful MODE commit has set
C25_PresentReportsInterval ==
    \A e \in Entries :
       (e.what = "events.present" /\ connectors[e.conn].driving # NoModeInfo)
          => e.refresh = FrameInterval(connectors[e.conn].driving)

----------------------------------------------------------------------------
(* Planes and CRTCs a commit relies on *)

\* C31: a commit or test reads and writes the slots of planes that exist
\* only: on a connector whose CRTC first-fit left without a primary plane,
\* neither the buffer lookup nor the apply step reads through the absent
\* primary plane.
C31_NoReadOfAbsentPrimary ==
    WasCommit => "primary" \notin PointersRead

\* C32: the CRTC of a created connector stays the one it was created with,
\* whatever handler runs, and the connector object stays; a commit or test
\* on a connector without a CRTC fails without an import or an engine call.
C32_CrtcFixedAtCreation ==
    [][ /\ \A c \in ConnIds :
              connectors[c].created
                 => /\ connectors'[c].created
                    /\ connectors'[c].crtc = connectors[c].crtc
        /\ (op'.name = "commit" /\ connectors[op'.conn].crtc = 0)
              => /\ ~op'.ret /\ ~crashed'
                 /\ NoImportNoEngine(trace')
                 /\ planes' = planes /\ pageFlips' = pageFlips ]_vars

\* a commit of a buffer has failed, with the session active, on a connected
\* output whose connector was created without a CRTC
C32_Witness ==
    /\ WasCommit /\ ~op.test /\ ~op.ret /\ sessionActive
    /\ op.st.buffer # 0
    /\ connectors[op.conn].status = "CONNECTED"
    /\ connectors[op.conn].output
    /\ connectors[op.conn].crtc = 0
====
